---- MODULE Spec2Model ----
(***************************************************************************)
(* State-machine model of the face detection / recognition core of the    *)
(* smart-attendance-system repository:                                    *)
(*   - the label-based galleries (AdvancedFaceDetection,                  *)
(*     OpenCVFaceDetector, EnhancedFaceRecognition),                      *)
(*   - the start/stop lifecycle of those pipelines and their two          *)
(*     background threads,                                                *)
(*   - the detection cycle of OpenCVFaceDetector with its                 *)
(*     detection_history,                                                 *)
(*   - the single-thread lifecycles of SimpleCamera and FaceDetector.     *)
(* Each family has its own specification over the shared variables.       *)
(***************************************************************************)
EXTENDS Integers, Sequences, FiniteSets, TLC

VARIABLES
    \* ---- gallery (face_detection_new.py, face_detection_opencv.py,
    \*      face_recognition_enhanced.py)
    g_impl,            \* which class the instance is
    known_faces,       \* self.known_faces : student_id -> entry
    face_labels,       \* self.face_labels : label_id -> student info
    is_trained,        \* self.is_trained
    recognizer,        \* trained LBPH model: set of <<student, label>> it was trained on
    disk,              \* face_data/*.pkl and *.yml
    ret,               \* what the last gallery call returned
    removedIds,        \* history: ids whose removal returned success, not enrolled since
    rec,               \* result of the last recognition step
    \* ---- caller thread / detection thread interleaving on the gallery
    c_pc, c_call, ncalls, d_pc, d_model, d_label, d_labels, committed,
    \* ---- OpenCVFaceDetector detection cycle
    detection_history, detected_faces, confidence_threshold, now, cycles, freshKeys,
    \* ---- pipeline and camera lifecycle
    p_impl, is_running, cap, handles, capture_thread, detection_thread, threads,
    thread_lock, current_frame, stop_pc, call, stopped, last_error,
    camera_index,
    \* ---- values handed to callers of get_frame / get_detected_faces
    heap,              \* the objects made so far: object id -> content
    held,              \* what callers hold: reference and content when returned
    \* ---- leave management (app.py, models.py)
    leave_requests,    \* table leave_requests: id -> row
    attendance_records,\* table attendance_records: rows in insertion order
    flashed,           \* category of the message the last request flashed
    inflight,          \* attendance requests between their lookup and their commit
    detection_active,  \* app.py's global detection_active
    \* ---- stages of one detection cycle (face_detection_opencv.py,
    \*      face_detection_new.py)
    faces_frontal,     \* boxes (x, y, w, h) the cascade returned
    quality_faces,     \* boxes the quality filter kept
    all_faces,         \* boxes that become observations
    gray_shape,        \* gray.shape / frame.shape[:2] as <<rows, columns>>
    face_roi,          \* padded rectangle <<x, y, w, h>> cut out for recognition
    detections,        \* output of dnn_net.forward(): rows of the network
    dnn_faces          \* what detect_faces_dnn returned

galleryVars == <<g_impl, known_faces, face_labels, is_trained, recognizer, disk, ret,
                 removedIds, rec>>
raceVars    == <<c_pc, c_call, ncalls, d_pc, d_model, d_label, d_labels, committed>>
trackVars   == <<detection_history, detected_faces, confidence_threshold, now, cycles,
                 freshKeys>>
lifeVars    == <<p_impl, is_running, cap, handles, capture_thread, detection_thread, threads,
                 thread_lock, current_frame, stop_pc, call, stopped, last_error,
                 camera_index>>
readVars    == <<heap, held>>
appVars     == <<leave_requests, attendance_records, flashed, inflight,
                 detection_active>>
stageVars   == <<faces_frontal, quality_faces, all_faces, gray_shape, face_roi,
                 detections, dnn_faces>>
vars == <<galleryVars, raceVars, trackVars, lifeVars, readVars, appVars, stageVars>>

None == "None"

(***************************************************************************)
(* Inputs                                                                  *)
(***************************************************************************)
StudentIds == {"S1", "S2"}
StudentNames == {"Alice"}
GoodImages == {"imgA"}                  \* image files with a detectable face
BadImages == {"missing", "noface"}      \* cv2.imread fails / no face detected
GalleryImpls == {"advanced", "opencv", "enhanced"}

\* FallbackFaceRecognition and OpenCVSimpleFaceRecognition besides
AllGalleryImpls == GalleryImpls \cup {"fallback", "simple"}

(***************************************************************************)
(* Gallery: pure parts of add_student_face / remove_student_face /         *)
(* train_recognizer / save_face_data                                       *)
(***************************************************************************)
MaxSamples == 10

\* images[-5:] of OpenCVSimpleFaceRecognition
SimpleMaxSamples == 5

\* face_variations / face_samples built from one image
NVariations(impl) ==
    CASE impl = "advanced" -> 3
      [] impl = "opencv"   -> 2
      [] impl = "enhanced" -> 5
      [] impl = "fallback" -> 1
      [] impl = "simple"   -> 1

FaceSamples(impl, img) == [v \in 1..NVariations(impl) |-> <<img, v>>]

\* images[-10:]
LastN(s, n) == IF Len(s) <= n THEN s ELSE SubSeq(s, Len(s) - n + 1, Len(s))

\* label_id = len(self.face_labels)
NewLabelId(fl) == Cardinality(DOMAIN fl)

\* "Store face data": the branch on student_id in self.known_faces
StoreFaceData(impl, kf, fl, id, name, img) ==
    IF id \notin DOMAIN kf
    THEN LET label_id == NewLabelId(fl) IN
         [kf |-> [i \in DOMAIN kf \cup {id} |->
                    IF i = id
                    THEN [name |-> name, label_id |-> label_id,
                          images |-> FaceSamples(impl, img)]
                    ELSE kf[i]],
          fl |-> [l \in DOMAIN fl \cup {label_id} |->
                    IF l = label_id THEN [student_id |-> id, name |-> name]
                    ELSE fl[l]]]
    ELSE [kf |-> [kf EXCEPT ![id] =
                    [name |-> IF impl \in {"opencv", "fallback"} THEN @.name ELSE name,
                     label_id |-> @.label_id,
                     images |-> CASE impl = "enhanced" -> FaceSamples(impl, img)
                                  [] impl = "fallback" ->
                                       @.images \o FaceSamples(impl, img)
                                  [] impl = "simple" ->
                                       LastN(@.images \o FaceSamples(impl, img),
                                             SimpleMaxSamples)
                                  [] OTHER ->
                                       LastN(@.images \o FaceSamples(impl, img),
                                             MaxSamples)]],
          fl |-> fl]

\* a removal that forgets the face_labels entry
DropFaceData_KeepLabel(kf, fl, id) ==
    [kf |-> [i \in DOMAIN kf \ {id} |-> kf[i]], fl |-> fl]

\* del self.known_faces[student_id]; del self.face_labels[label_id]
DropFaceData(kf, fl, id) ==
    LET label_id == kf[id].label_id IN
    [kf |-> [i \in DOMAIN kf \ {id} |-> kf[i]],
     fl |-> [l \in DOMAIN fl \ {label_id} |-> fl[l]]]

RECURSIVE SumLen(_, _)
SumLen(kf, ids) ==
    IF ids = {} THEN 0
    ELSE LET i == CHOOSE x \in ids : TRUE IN Len(kf[i].images) + SumLen(kf, ids \ {i})

\* len(faces) in train_recognizer
TotalSamples(kf) == SumLen(kf, DOMAIN kf)

\* what face_recognizer.train(faces, labels) is given: every sample with the
\* label_id of its owner
TrainingSet(kf) == {<<i, kf[i].label_id>> : i \in DOMAIN kf}

\* train_recognizer: [ok, is_trained, recognizer]; trainOk = FALSE is
\* cv2's train raising
TrainRecognizer(impl, kf, trained, model, trainOk) ==
    IF DOMAIN kf = {}
    THEN [ok |-> FALSE, is_trained |-> IF impl = "opencv" THEN trained ELSE FALSE,
          recognizer |-> model]
    ELSE IF impl = "enhanced" /\ TotalSamples(kf) < 2
    THEN [ok |-> FALSE, is_trained |-> FALSE, recognizer |-> model]
    ELSE IF TotalSamples(kf) = 0
    THEN [ok |-> FALSE, is_trained |-> trained, recognizer |-> model]
    ELSE IF trainOk
    THEN [ok |-> TRUE, is_trained |-> TRUE, recognizer |-> TrainingSet(kf)]
    ELSE [ok |-> FALSE, is_trained |-> IF impl = "enhanced" THEN FALSE ELSE trained,
          recognizer |-> model]

\* save_face_data: the model file is rewritten only when is_trained
SaveFaceData(kf, fl, trained, model, d) ==
    [faces |-> kf, labels |-> fl, model |-> IF trained THEN model ELSE d.model]

(***************************************************************************)
(* Recognition: the part of _detect_faces / recognize_face between the     *)
(* is_trained test and the student_id it yields                            *)
(***************************************************************************)
\* raw LBPH distances the classifier may report (lower is better)
Distances == {0, 90}

NoMatch == [student_id |-> None, name |-> "Unknown", confidence |-> 0]

\* "if self.is_trained and len(self.known_faces) > 0" / "if not self.is_trained"
RecognitionGate(impl, trained, kf) ==
    IF impl \in {"enhanced", "fallback"} THEN trained ELSE trained /\ DOMAIN kf # {}

\* labels face_recognizer.predict can return
PredictableLabels(model) == {p[2] : p \in model}

\* confidence (in percent) computed from the raw distance
Similarity(impl, thr, dist) ==
    CASE impl = "advanced" -> IF dist >= 70 THEN 0 ELSE ((70 - dist) * 100) \div 70
      [] impl = "opencv"   -> IF dist >= 100 THEN 0 ELSE 100 - dist
      [] impl = "enhanced" -> IF dist >= 200 THEN 0 ELSE (200 - dist) \div 2
      [] impl = "fallback" -> IF dist >= 100 THEN 0 ELSE 100 - dist
      [] impl = "simple"   -> IF dist >= 80 THEN 0 ELSE ((80 - dist) * 100) \div 80

\* the threshold test that precedes the face_labels lookup
Accepts(impl, thr, dist) ==
    CASE impl = "advanced" -> dist < 70
      [] impl = "opencv"   -> dist < 100 /\ Similarity(impl, thr, dist) > thr
      [] impl = "enhanced" -> Similarity(impl, thr, dist) > 20
      [] impl = "fallback" -> dist < 100 /\ Similarity(impl, thr, dist) > 40
      [] impl = "simple"   -> dist < 80

\* threshold test, "label_id in self.face_labels", then the lookup
Identify(impl, fl, thr, label, dist) ==
    IF Accepts(impl, thr, dist) /\ label \in DOMAIN fl
    THEN [student_id |-> fl[label].student_id, name |-> fl[label].name,
          confidence |-> Similarity(impl, thr, dist)]
    ELSE IF impl = "fallback"
    THEN [NoMatch EXCEPT !.confidence = Similarity(impl, thr, dist)]
    ELSE NoMatch

(***************************************************************************)
(* Gallery handlers as whole calls                                         *)
(***************************************************************************)
NoRec == [subject |-> None, label |-> -1, dist |-> -1, student_id |-> None,
          name |-> "Unknown", confidence |-> 0]

NoDisk == [faces |-> <<>>, labels |-> <<>>, model |-> {}]

\* remove_student_face's "Clear detection history for this student"
\* v.get('label') != label_id, for an entry v of detection_history
KeepsEntry(v, label_id) == ~("label" \in DOMAIN v /\ v.label = label_id)

ClearHistoryFor(hist, label_id) ==
    SelectSeq(hist, LAMBDA v : KeepsEntry(v, label_id))

\* add_student_face(student_id, student_name, image_path)
add_student_face(id, name, img, trainOk) ==
    /\ rec' = NoRec
    /\ IF img \in BadImages
       THEN /\ ret' = [op |-> "add", id |-> id, ok |-> FALSE]
            /\ UNCHANGED <<known_faces, face_labels, is_trained, recognizer, disk,
                           removedIds>>
       ELSE LET s == StoreFaceData(g_impl, known_faces, face_labels, id, name, img)
                t == TrainRecognizer(g_impl, s.kf, is_trained, recognizer, trainOk)
                saved == t.ok \/ g_impl \in {"opencv", "fallback"}
            IN /\ known_faces' = s.kf
               /\ face_labels' = s.fl
               /\ is_trained' = t.is_trained
               /\ recognizer' = t.recognizer
               /\ disk' = IF saved
                          THEN SaveFaceData(s.kf, s.fl, t.is_trained, t.recognizer, disk)
                          ELSE disk
               /\ ret' = [op |-> "add", id |-> id, ok |-> saved]
               /\ removedIds' = removedIds \ {id}
    /\ UNCHANGED <<g_impl, detection_history>>

\* remove_student_face(student_id)
remove_student_face(id, trainOk) ==
    /\ rec' = NoRec
    /\ IF id \in DOMAIN known_faces
       THEN LET s == DropFaceData(known_faces, face_labels, id)
                t == IF DOMAIN s.kf # {}
                     THEN TrainRecognizer(g_impl, s.kf, is_trained, recognizer, trainOk)
                     ELSE [ok |-> FALSE, is_trained |-> FALSE, recognizer |-> recognizer]
            IN /\ known_faces' = s.kf
               /\ face_labels' = s.fl
               /\ detection_history' =
                      IF g_impl = "opencv"
                      THEN ClearHistoryFor(detection_history, known_faces[id].label_id)
                      ELSE detection_history
               /\ is_trained' = t.is_trained
               /\ recognizer' = t.recognizer
               /\ disk' = SaveFaceData(s.kf, s.fl, t.is_trained, t.recognizer, disk)
               /\ ret' = [op |-> "remove", id |-> id, ok |-> TRUE]
               /\ removedIds' = removedIds \cup {id}
       ELSE /\ ret' = [op |-> "remove", id |-> id, ok |-> FALSE]
            /\ UNCHANGED <<known_faces, face_labels, is_trained, recognizer, disk,
                           removedIds, detection_history>>
    /\ UNCHANGED g_impl

\* OpenCVFaceDetector._detect_faces holds "import cv2" in its body (line 331),
\* which makes cv2 a local name of the function: the first use, cv2.cvtColor
\* (line 310), raises UnboundLocalError in every iteration, and the handler at
\* the end of the loop body swallows it: the recognition code of that class is
\* never reached
CycleRaises(impl) == impl = "opencv"

\* one recognition of a face showing `subject`: predict, threshold, lookup
recognize_face(subject, label, dist) ==
    /\ ~CycleRaises(g_impl)
    /\ RecognitionGate(g_impl, is_trained, known_faces)
    /\ <<subject, label>> \in recognizer
    /\ LET r == Identify(g_impl, face_labels, confidence_threshold, label, dist)
       IN rec' = [subject |-> subject, label |-> label, dist |-> dist,
                  student_id |-> r.student_id, name |-> r.name,
                  confidence |-> r.confidence]
    /\ UNCHANGED <<g_impl, known_faces, face_labels, is_trained, recognizer, disk, ret,
                   removedIds, detection_history>>

(***************************************************************************)
(* Initial values of the variable groups                                   *)
(***************************************************************************)
GalleryInit ==
    /\ g_impl \in GalleryImpls
    /\ known_faces = <<>>
    /\ face_labels = <<>>
    /\ is_trained = FALSE
    /\ recognizer = {}
    /\ disk = NoDisk
    /\ ret = [op |-> "init", id |-> None, ok |-> TRUE]
    /\ removedIds = {}
    /\ rec = NoRec

RaceIdle ==
    /\ c_pc = "idle"
    /\ c_call = None
    /\ ncalls = 0
    /\ d_pc = "idle"
    /\ d_model = {}
    /\ d_label = -1
    /\ d_labels = <<>>
    /\ committed = {}

TrackIdle ==
    /\ detection_history = <<>>
    /\ detected_faces = <<>>
    /\ confidence_threshold = 30
    /\ now = 0
    /\ cycles = 0
    /\ freshKeys = {}

ReadIdle ==
    /\ heap = <<>>
    /\ held = {}

StageIdle ==
    /\ faces_frontal = <<>>
    /\ quality_faces = <<>>
    /\ all_faces = <<>>
    /\ gray_shape = <<0, 0>>
    /\ face_roi = <<0, 0, 0, 0>>
    /\ detections = <<>>
    /\ dnn_faces = <<>>

AppIdle ==
    /\ inflight = <<>>
    /\ detection_active = FALSE
    /\ leave_requests = <<>>
    /\ attendance_records = <<>>
    /\ flashed = None

LifeIdle ==
    /\ p_impl = None
    /\ is_running = FALSE
    /\ cap = 0
    /\ handles = {}
    /\ capture_thread = 0
    /\ detection_thread = 0
    /\ threads = <<>>
    /\ thread_lock = 0
    /\ current_frame = 0
    /\ stop_pc = "idle"
    /\ call = [op |-> "init", ok |-> TRUE]
    /\ stopped = "no"
    /\ last_error = None
    /\ camera_index = 0

(***************************************************************************)
(* SpecGallery: any sequence of gallery calls and recognitions             *)
(***************************************************************************)
InitGallery == GalleryInit /\ RaceIdle /\ TrackIdle /\ LifeIdle /\ ReadIdle /\ AppIdle /\ StageIdle

AddCall ==
    /\ \E id \in StudentIds, name \in StudentNames, img \in GoodImages \cup BadImages,
          trainOk \in BOOLEAN : add_student_face(id, name, img, trainOk)
    /\ UNCHANGED <<raceVars, detected_faces, confidence_threshold, now, cycles,
                   freshKeys, readVars, appVars, stageVars, lifeVars>>

RemoveCall ==
    /\ \E id \in StudentIds, trainOk \in BOOLEAN : remove_student_face(id, trainOk)
    /\ UNCHANGED <<raceVars, detected_faces, confidence_threshold, now, cycles,
                   freshKeys, readVars, appVars, stageVars, lifeVars>>

RecognizeCall ==
    /\ \E p \in recognizer, dist \in Distances : recognize_face(p[1], p[2], dist)
    /\ UNCHANGED <<raceVars, detected_faces, confidence_threshold, now, cycles,
                   freshKeys, readVars, appVars, stageVars, lifeVars>>

NextGallery == AddCall \/ RemoveCall \/ RecognizeCall

SpecGallery == InitGallery /\ [][NextGallery]_vars

\* C4: immediately after a successful add_student_face(id), a recognition of
\* one of id's own stored samples (the classifier predicting the label attached
\* to that sample, at distance 0) is reported as identity id.
C4_SelfMatchAfterAdd ==
    (/\ ret.op = "add" /\ ret.ok
     /\ rec.subject = ret.id
     /\ rec.label = known_faces[ret.id].label_id
     /\ rec.dist = 0)
    => rec.student_id = ret.id

\* C5: after remove_student_face(id) returned success and until id is enrolled
\* again, no recognition step (prediction, then face_labels lookup) yields id.
C5_RemovedNeverRecognized == rec.student_id \notin removedIds

\* a removed identity's former label is predicted (the retraining after the
\* removal failed, so the model still holds it) and the lookup finds nothing
C5_Witness ==
    /\ rec.subject \in removedIds
    /\ rec.dist = 0
    /\ rec.student_id = None

(***************************************************************************)
(* SpecRace: add_student_face / remove_student_face running statement by   *)
(* statement on a caller thread while the detection thread runs the        *)
(* recognition part of its loop.  Neither side takes a lock around the     *)
(* gallery.                                                                *)
(***************************************************************************)
\* gallery calls per behaviour
MaxRaceCalls == 4

InitRace ==
    /\ GalleryInit
    /\ c_pc = "idle" /\ c_call = None /\ ncalls = 0
    /\ d_pc = "idle" /\ d_model = {} /\ d_label = -1 /\ d_labels = <<>>
    /\ committed = {[is_trained |-> FALSE, recognizer |-> {}, face_labels |-> <<>>,
                     known |-> {}]}
    /\ TrackIdle /\ LifeIdle
    /\ ReadIdle /\ AppIdle /\ StageIdle

raceFrame == <<g_impl, trackVars, lifeVars, readVars, appVars, stageVars>>

\* the caller enters add_student_face / remove_student_face; the checks that
\* return before anything is written are decided here
CallerEnter ==
    /\ c_pc = "idle"
    /\ ncalls < MaxRaceCalls
    /\ ncalls' = ncalls + 1
    /\ \E op \in {"add", "remove"}, id \in StudentIds, name \in StudentNames,
          img \in GoodImages \cup BadImages, trainOk \in BOOLEAN :
          LET early == \/ op = "add" /\ img \in BadImages
                       \/ op = "remove" /\ id \notin DOMAIN known_faces
          IN /\ op = "remove" => (name = CHOOSE n \in StudentNames : TRUE)
                                 /\ img = CHOOSE i \in GoodImages : TRUE
             /\ IF early
                THEN /\ ret' = [op |-> op, id |-> id, ok |-> FALSE]
                     /\ UNCHANGED <<c_pc, c_call>>
                ELSE /\ c_pc' = "store"
                     /\ c_call' = [op |-> op, id |-> id, name |-> name, img |-> img,
                                   trainOk |-> trainOk, ok |-> TRUE]
                     /\ ret' = ret
    /\ UNCHANGED <<known_faces, face_labels, is_trained, recognizer, disk, removedIds,
                   rec, d_pc, d_model, d_label, d_labels, committed, raceFrame>>

\* the writes to known_faces and face_labels
CallerStore ==
    /\ c_pc = "store"
    /\ LET s == IF c_call.op = "add"
                THEN StoreFaceData(g_impl, known_faces, face_labels, c_call.id,
                                   c_call.name, c_call.img)
                ELSE DropFaceData(known_faces, face_labels, c_call.id)
       IN /\ known_faces' = s.kf
          /\ face_labels' = s.fl
    /\ removedIds' = IF c_call.op = "add" THEN removedIds \ {c_call.id} ELSE removedIds
    /\ c_pc' = "train"
    /\ UNCHANGED <<is_trained, recognizer, disk, ret, rec, c_call, ncalls, d_pc, d_model,
                   d_label, d_labels, committed, raceFrame>>

\* train_recognizer(), or is_trained = False when the gallery became empty
CallerTrain ==
    /\ c_pc = "train"
    /\ LET t == IF c_call.op = "remove" /\ DOMAIN known_faces = {}
                THEN [ok |-> FALSE, is_trained |-> FALSE, recognizer |-> recognizer]
                ELSE TrainRecognizer(g_impl, known_faces, is_trained, recognizer,
                                     c_call.trainOk)
       IN /\ is_trained' = t.is_trained
          /\ recognizer' = t.recognizer
          /\ c_call' = [c_call EXCEPT !.ok = (c_call.op = "remove") \/ t.ok
                                            \/ g_impl = "opencv"]
          \* the last write of the call to the in-memory gallery: from here on
          \* the gallery is in the state the call leaves it in
          /\ committed' = committed \cup
                 {[is_trained |-> t.is_trained, recognizer |-> t.recognizer,
                   face_labels |-> face_labels, known |-> DOMAIN known_faces]}
    /\ c_pc' = "save"
    /\ UNCHANGED <<known_faces, face_labels, disk, ret, removedIds, rec, ncalls, d_pc,
                   d_model, d_label, d_labels, raceFrame>>

\* save_face_data() (skipped when add's training failed) and the return
CallerSave ==
    /\ c_pc = "save"
    /\ disk' = IF c_call.ok
               THEN SaveFaceData(known_faces, face_labels, is_trained, recognizer, disk)
               ELSE disk
    /\ ret' = [op |-> c_call.op, id |-> c_call.id, ok |-> c_call.ok]
    /\ removedIds' = IF c_call.op = "remove" THEN removedIds \cup {c_call.id}
                     ELSE removedIds
    /\ c_pc' = "idle"
    /\ c_call' = None
    /\ UNCHANGED <<known_faces, face_labels, is_trained, recognizer, rec, ncalls, d_pc,
                   d_model, d_label, d_labels, committed, raceFrame>>

\* detection thread: "if self.is_trained and len(self.known_faces) > 0"
DetectGate ==
    /\ d_pc = "idle"
    /\ ~CycleRaises(g_impl)
    /\ RecognitionGate(g_impl, is_trained, known_faces)
    /\ d_pc' = "predict"
    /\ rec' = NoRec
    /\ UNCHANGED <<known_faces, face_labels, is_trained, recognizer, disk, ret,
                   removedIds, c_pc, c_call, ncalls, d_model, d_label, d_labels,
                   committed, raceFrame>>

\* detection thread: label_id, conf = self.face_recognizer.predict(...)
DetectPredict ==
    /\ d_pc = "predict"
    /\ IF recognizer = {}
       THEN /\ d_pc' = "idle"
            /\ UNCHANGED <<d_model, d_label>>
       ELSE /\ d_pc' = "lookup"
            /\ d_model' = recognizer
            /\ \E label \in PredictableLabels(recognizer) : d_label' = label
    /\ UNCHANGED <<known_faces, face_labels, is_trained, recognizer, disk, ret,
                   removedIds, rec, c_pc, c_call, ncalls, d_labels, committed,
                   raceFrame>>

\* detection thread: threshold test and self.face_labels[label_id]
DetectLookup ==
    /\ d_pc = "lookup"
    /\ \E dist \in Distances :
          LET r == Identify(g_impl, face_labels, confidence_threshold, d_label, dist)
          IN rec' = [subject |-> None, label |-> d_label, dist |-> dist,
                     student_id |-> r.student_id, name |-> r.name,
                     confidence |-> r.confidence]
    /\ d_labels' = face_labels
    /\ d_pc' = "done"
    /\ UNCHANGED <<known_faces, face_labels, is_trained, recognizer, disk, ret,
                   removedIds, c_pc, c_call, ncalls, d_model, d_label, committed,
                   raceFrame>>

\* detection thread: the entry is appended and the loop goes on
DetectNext ==
    /\ d_pc = "done"
    /\ d_pc' = "idle"
    /\ d_model' = {} /\ d_label' = -1 /\ d_labels' = <<>>
    /\ UNCHANGED <<known_faces, face_labels, is_trained, recognizer, disk, ret,
                   removedIds, rec, c_pc, c_call, ncalls, committed, raceFrame>>

NextRace == \/ CallerEnter \/ CallerStore \/ CallerTrain \/ CallerSave
            \/ DetectGate \/ DetectPredict \/ DetectLookup \/ DetectNext

SpecRace == InitRace /\ [][NextRace]_vars

\* C9: every recognition step of the detection loop pairs a trained model and a
\* label map that together formed one committed gallery state (a state a
\* gallery call leaves the in-memory gallery in), never the model of one state
\* with the label map of another.
C9_TornFreeRecognition ==
    d_pc = "done" =>
        \E c \in committed : c.recognizer = d_model /\ c.face_labels = d_labels

(***************************************************************************)
(* SpecLife: start_detection / stop_detection of a pipeline instance and   *)
(* its capture and detection threads.  start_detection is one step;        *)
(* stop_detection is three (signal, joins with timeout + release, clear),  *)
(* so that threads and a second request thread can run in between.         *)
(***************************************************************************)
\* threads created per behaviour, VideoCapture objects created per behaviour
MaxThreads == 4
MaxOpens == 3

PipelineImpls == {"advanced", "opencv", "enhanced"}

\* what a detection cycle may publish
SomeFaces == {<<>>, <<NoMatch>>}

Alive(kind) == {t \in DOMAIN threads : threads[t].kind = kind /\ threads[t].pc # "done"}
OpenHandles == {h \in DOMAIN handles : handles[h] = "open"}

\* a VideoCapture object that loses its last reference is released
Dropped(hs, h) == IF h # 0 /\ hs[h] = "open" THEN [hs EXCEPT ![h] = "closed"] ELSE hs

\* self.cap.release()
Released(hs, h) == IF h # 0 THEN [hs EXCEPT ![h] = "closed"] ELSE hs

\* "if self.is_running: return True, 'Detection already running'" (absent in
\* OpenCVFaceDetector)
StartGuarded(impl) == impl # "opencv"

InitLife ==
    /\ GalleryInit /\ RaceIdle
    /\ detection_history = <<>> /\ detected_faces = <<>> /\ confidence_threshold = 30
    /\ now = 0 /\ cycles = 0 /\ freshKeys = {}
    /\ p_impl \in PipelineImpls /\ p_impl = g_impl
    /\ is_running = FALSE
    /\ cap = 0
    /\ handles = <<>>
    /\ capture_thread = 0
    /\ detection_thread = 0
    /\ threads = <<>>
    /\ thread_lock = 0
    /\ current_frame = 0
    /\ stop_pc = "idle"
    /\ call = [op |-> "init", ok |-> TRUE]
    /\ stopped = "no"
    /\ last_error = None
    /\ camera_index = 0
    /\ ReadIdle /\ AppIdle /\ StageIdle

lifeFrame == <<galleryVars, raceVars, confidence_threshold, now, cycles,
               freshKeys, readVars, appVars, stageVars, p_impl, last_error, camera_index>>

\* start_detection(camera_index); opened = cap.isOpened()
start_detection(opened) ==
    /\ stopped' = "no"
    /\ IF StartGuarded(p_impl) /\ is_running
       THEN /\ call' = [op |-> "start", ok |-> TRUE]
            /\ UNCHANGED <<is_running, cap, handles, capture_thread, detection_thread,
                           threads, detection_history>>
       ELSE /\ Len(handles) < MaxOpens
            /\ cap' = Len(handles) + 1
            /\ handles' = Append(Dropped(handles, cap),
                                 IF opened THEN "open" ELSE "unopened")
            /\ IF ~opened
               THEN /\ call' = [op |-> "start", ok |-> FALSE]
                    /\ UNCHANGED <<is_running, capture_thread, detection_thread, threads,
                                   detection_history>>
               ELSE /\ Len(threads) + 2 <= MaxThreads
                    /\ is_running' = TRUE
                    /\ detection_history' = IF p_impl = "opencv" THEN <<>>
                                            ELSE detection_history
                    /\ capture_thread' = Len(threads) + 1
                    /\ detection_thread' = Len(threads) + 2
                    /\ threads' = threads \o <<[kind |-> "capture", pc |-> "loop"],
                                               [kind |-> "detect", pc |-> "loop"]>>
                    /\ call' = [op |-> "start", ok |-> TRUE]
    /\ UNCHANGED <<thread_lock, current_frame, detected_faces, stop_pc, lifeFrame>>

Start == \E opened \in BOOLEAN : start_detection(opened)

\* a stop that flips the flag instead of lowering it
StopSignal_Toggle ==
    /\ stop_pc = "idle"
    /\ is_running' = ~is_running
    /\ stop_pc' = "join"
    /\ stopped' = "pending"
    /\ UNCHANGED <<cap, handles, capture_thread, detection_thread, threads, thread_lock,
                   current_frame, detected_faces, call, detection_history, lifeFrame>>

\* stop_detection: self.is_running = False
StopSignal ==
    /\ stop_pc = "idle"
    /\ is_running' = FALSE
    /\ stop_pc' = "join"
    /\ stopped' = "pending"
    /\ UNCHANGED <<cap, handles, capture_thread, detection_thread, threads, thread_lock,
                   current_frame, detected_faces, call, detection_history, lifeFrame>>

\* stop_detection: both join(timeout=...) calls have returned (the thread ended
\* or the timeout passed), then the device is released
StopJoined ==
    /\ stop_pc = "join"
    /\ handles' = Released(handles, cap)
    /\ IF p_impl = "opencv"
       THEN /\ cap' = cap
            /\ stop_pc' = "idle"
            /\ call' = [op |-> "stop", ok |-> TRUE]
            /\ stopped' = IF stopped = "pending" THEN "yes" ELSE stopped
       ELSE /\ cap' = 0
            /\ stop_pc' = "clear"
            /\ UNCHANGED <<call, stopped>>
    /\ UNCHANGED <<is_running, capture_thread, detection_thread, threads, thread_lock,
                   current_frame, detected_faces, detection_history, lifeFrame>>

\* stop_detection: "with self.thread_lock:" clear detected_faces and
\* current_frame, return
StopClear ==
    /\ stop_pc = "clear"
    /\ thread_lock = 0
    /\ detected_faces' = <<>>
    /\ current_frame' = 0
    /\ stop_pc' = "idle"
    /\ call' = [op |-> "stop", ok |-> TRUE]
    /\ stopped' = IF stopped = "pending" THEN "yes" ELSE stopped
    /\ UNCHANGED <<is_running, cap, handles, capture_thread, detection_thread, threads,
                   thread_lock, detection_history, lifeFrame>>

\* a loop test that does not read is_running
CaptureCondition_IgnoresFlag == p_impl = "opencv" \/ cap # 0

\* "while self.is_running [and self.cap]"
CaptureCondition == is_running /\ (p_impl = "opencv" \/ cap # 0)

\* _capture_frames: loop test and self.cap.read(); a failed read sleeps and
\* comes back here
CaptureRead(t) ==
    /\ threads[t].kind = "capture" /\ threads[t].pc = "loop"
    /\ IF ~CaptureCondition
       THEN threads' = [threads EXCEPT ![t].pc = "done"]
       ELSE /\ cap # 0 /\ handles[cap] = "open"
            /\ threads' = [threads EXCEPT ![t].pc = "write"]
    /\ UNCHANGED <<is_running, cap, handles, capture_thread, detection_thread,
                   thread_lock, current_frame, detected_faces, stop_pc, call, stopped,
                   detection_history, lifeFrame>>

\* _capture_frames: "with self.thread_lock: self.current_frame = frame.copy()"
CaptureWrite(t) ==
    /\ threads[t].kind = "capture" /\ threads[t].pc = "write"
    /\ thread_lock = 0
    /\ current_frame' = 1
    /\ threads' = [threads EXCEPT ![t].pc = "loop"]
    /\ UNCHANGED <<is_running, cap, handles, capture_thread, detection_thread,
                   thread_lock, detected_faces, stop_pc, call, stopped, detection_history, lifeFrame>>

\* _detect_faces: loop test, then "with self.thread_lock:" the test of
\* current_frame; with no frame the thread sleeps inside the with block
DetectTake(t) ==
    /\ threads[t].kind = "detect" /\ threads[t].pc = "loop"
    /\ IF ~is_running
       THEN /\ threads' = [threads EXCEPT ![t].pc = "done"]
            /\ UNCHANGED thread_lock
       ELSE /\ thread_lock = 0
            /\ IF current_frame = 0
               THEN /\ thread_lock' = t
                    /\ threads' = [threads EXCEPT ![t].pc = "locked_sleep"]
               ELSE /\ thread_lock' = 0
                    /\ threads' = [threads EXCEPT ![t].pc = "process"]
    /\ UNCHANGED <<is_running, cap, handles, capture_thread, detection_thread,
                   current_frame, detected_faces, stop_pc, call, stopped, detection_history, lifeFrame>>

\* _detect_faces: time.sleep(0.1) is over, "continue" leaves the with block
DetectWake(t) ==
    /\ threads[t].kind = "detect" /\ threads[t].pc = "locked_sleep"
    /\ thread_lock' = 0
    /\ threads' = [threads EXCEPT ![t].pc = "loop"]
    /\ UNCHANGED <<is_running, cap, handles, capture_thread, detection_thread,
                   current_frame, detected_faces, stop_pc, call, stopped, detection_history, lifeFrame>>

\* _detect_faces: the cycle's result is published under the lock, or the cycle
\* raised and nothing is published; then the sleep
DetectPublish(t) ==
    /\ threads[t].kind = "detect" /\ threads[t].pc = "process"
    /\ \/ /\ ~CycleRaises(p_impl)
          /\ thread_lock = 0
          /\ \E faces \in SomeFaces : detected_faces' = faces
       \/ UNCHANGED detected_faces
    /\ threads' = [threads EXCEPT ![t].pc = "loop"]
    /\ UNCHANGED <<is_running, cap, handles, capture_thread, detection_thread,
                   thread_lock, current_frame, stop_pc, call, stopped, detection_history, lifeFrame>>

CaptureStep == \E t \in DOMAIN threads : CaptureRead(t) \/ CaptureWrite(t)
DetectStep == \E t \in DOMAIN threads : DetectTake(t) \/ DetectWake(t) \/ DetectPublish(t)

NextLife == Start \/ StopSignal \/ StopJoined \/ StopClear \/ CaptureStep \/ DetectStep

SpecLife == InitLife /\ [][NextLife]_vars

\* C1: at most one capture thread and one detection thread of the instance are
\* alive, and at most one device handle is open, in every reachable state.
C1_AtMostOneThreadAndHandle ==
    /\ Cardinality(Alive("capture")) <= 1
    /\ Cardinality(Alive("detect")) <= 1
    /\ Cardinality(OpenHandles) <= 1

\* C2: after stop_detection() has returned and until the next start_detection(),
\* detected_faces is empty and current_frame is None.
C2_ClearedAfterStop ==
    stopped = "yes" => detected_faces = <<>> /\ current_frame = 0

\* C7: a start_detection() issued while the pipeline is running returns a
\* failure, spawns no thread and leaves the device handle and the session as
\* they were.
C7_SecondStartRejected ==
    [][(is_running /\ Start) =>
          /\ call'.ok = FALSE
          /\ threads' = threads
          /\ cap' = cap /\ handles' = handles
          /\ is_running' = is_running]_vars

\* C10: the detection thread never sleeps while it holds thread_lock.
C10_NoSleepUnderLock ==
    \A t \in DOMAIN threads : threads[t].pc = "locked_sleep" => thread_lock # t

(***************************************************************************)
(* SpecCam: SimpleCamera (src/core and the legacy copy) and FaceDetector:  *)
(* one background loop, start with a device that may not open or read,     *)
(* faults inside the loop.  No statement of these classes assigns a field  *)
(* that keeps a fault: last_error stands for that record and stays None.   *)
(***************************************************************************)
CamImpls == {"core", "legacy", "detector"}
CameraIndices == {0, 1, 2}

\* max_failures of SimpleCamera._capture_frames
MaxFailures == 10

\* threads created per behaviour, VideoCapture objects kept per behaviour
MaxCamThreads == 2
MaxCamOpens == 2

\* "for alt_index in [1, 2, 0]: if alt_index != self.camera_index"
AltIndices(ci) == SelectSeq(<<1, 2, 0>>, LAMBDA a : a # ci)

RECURSIVE FirstOpenable(_, _)
FirstOpenable(idxs, openable) ==
    IF idxs = <<>> THEN -1
    ELSE IF Head(idxs) \in openable THEN Head(idxs)
    ELSE FirstOpenable(Tail(idxs), openable)

\* the index whose VideoCapture is open when the opening part of start is
\* over, -1 for none; FaceDetector tries the configured index only
OpenedIndex(impl, ci, openable) ==
    IF ci \in openable THEN ci
    ELSE IF impl = "detector" THEN -1
    ELSE FirstOpenable(AltIndices(ci), openable)

\* SimpleCamera.start_camera reads one test frame, FaceDetector does not
TestsRead(impl) == impl # "detector"

\* _cleanup_camera() on the failure paths; the legacy copy and FaceDetector
\* leave self.cap bound to the object
CleansUpOnFailure(impl) == impl = "core"

\* the loop thread's kind: capture_thread of SimpleCamera, detection_thread of
\* FaceDetector
LoopKind(impl) == IF impl = "detector" THEN "detect" ELSE "capture"

InitCam ==
    /\ GalleryInit /\ g_impl = "advanced" /\ RaceIdle /\ TrackIdle
    /\ p_impl \in CamImpls
    /\ is_running = FALSE
    /\ cap = 0
    /\ handles = <<>>
    /\ capture_thread = 0
    /\ detection_thread = 0
    /\ threads = <<>>
    /\ thread_lock = 0
    /\ current_frame = 0
    /\ stop_pc = "idle"
    /\ call = [op |-> "init", ok |-> TRUE]
    /\ stopped = "no"
    /\ last_error = None
    /\ camera_index = 0
    /\ ReadIdle /\ AppIdle /\ StageIdle

camFrame == <<galleryVars, raceVars, detection_history, confidence_threshold, now, cycles,
              freshKeys, readVars, leave_requests, attendance_records, flashed, inflight,
              stageVars, p_impl, thread_lock, last_error>>

\* start_camera() / start_detection(); openable = the indices at which
\* VideoCapture opens, readable = the test read returns a frame
start_camera(openable, readable) ==
    /\ stopped' = "no"
    /\ IF is_running
       THEN /\ call' = [op |-> "start", ok |-> TRUE]
            /\ UNCHANGED <<is_running, cap, handles, capture_thread, detection_thread,
                           threads, camera_index>>
       ELSE LET idx == OpenedIndex(p_impl, camera_index, openable)
                old == IF p_impl = "core" THEN Released(handles, cap)
                       ELSE Dropped(handles, cap)
                new == Len(handles) + 1
            IN /\ Len(handles) < MaxCamOpens
               /\ camera_index' = IF idx = -1 THEN camera_index ELSE idx
               /\ IF idx = -1
                  THEN /\ call' = [op |-> "start", ok |-> FALSE]
                       /\ cap' = IF CleansUpOnFailure(p_impl) THEN 0 ELSE new
                       /\ handles' = Append(old, "unopened")
                       /\ UNCHANGED <<is_running, capture_thread, detection_thread,
                                      threads>>
                  ELSE IF TestsRead(p_impl) /\ ~readable
                  THEN /\ call' = [op |-> "start", ok |-> FALSE]
                       /\ cap' = IF CleansUpOnFailure(p_impl) THEN 0 ELSE new
                       /\ handles' = Append(old, "closed")
                       /\ UNCHANGED <<is_running, capture_thread, detection_thread,
                                      threads>>
                  ELSE /\ Len(threads) < MaxCamThreads
                       /\ call' = [op |-> "start", ok |-> TRUE]
                       /\ cap' = new
                       /\ handles' = Append(old, "open")
                       /\ is_running' = TRUE
                       /\ threads' = Append(threads, [kind |-> LoopKind(p_impl),
                                                      pc |-> "loop", failures |-> 0,
                                                      fault |-> FALSE])
                       /\ IF p_impl = "detector"
                          THEN detection_thread' = Len(threads) + 1
                               /\ UNCHANGED capture_thread
                          ELSE capture_thread' = Len(threads) + 1
                               /\ UNCHANGED detection_thread
    /\ UNCHANGED <<current_frame, detected_faces, stop_pc, camFrame>>

CamStart ==
    /\ \E openable \in SUBSET CameraIndices, readable \in BOOLEAN :
          start_camera(openable, readable)
    /\ UNCHANGED detection_active

\* stop_camera() / stop_detection(): self.is_running = False
stop_camera_signal ==
    /\ stop_pc = "idle"
    /\ is_running' = FALSE
    /\ stop_pc' = "join"
    /\ stopped' = "pending"
    /\ UNCHANGED <<cap, handles, capture_thread, detection_thread, threads,
                   current_frame, detected_faces, call, camera_index, camFrame>>

CamStopSignal == stop_camera_signal /\ UNCHANGED detection_active

\* stop_camera() / stop_detection(): the join has returned (thread over, or
\* timeout), the device is released, the frame is cleared under the lock
stop_camera_finish ==
    /\ stop_pc = "join"
    /\ handles' = Released(handles, cap)
    /\ cap' = 0
    /\ current_frame' = 0
    /\ detected_faces' = IF p_impl = "detector" THEN <<>> ELSE detected_faces
    /\ capture_thread' = IF p_impl = "core" THEN 0 ELSE capture_thread
    /\ stop_pc' = "idle"
    /\ call' = [op |-> "stop", ok |-> TRUE]
    /\ stopped' = IF stopped = "pending" THEN "yes" ELSE stopped
    /\ UNCHANGED <<is_running, detection_thread, threads, camera_index, camFrame>>

CamStopFinish == stop_camera_finish /\ UNCHANGED detection_active

\* "while self.is_running and self.cap [and self.cap.isOpened()]"
LoopCondition(impl) ==
    /\ is_running
    /\ cap # 0
    /\ impl = "core" => handles[cap] = "open"

ReadOutcomes == {"frame", "noframe", "raise"}

\* the loop test and self.cap.read() of _capture_frames / _detection_loop.  A
\* failed read counts towards max_failures in src/core and only sleeps in the
\* other two; an exception is swallowed in src/core and ends the loop ("break")
\* in the other two.  For the legacy SimpleCamera, which keeps no counter, the
\* failures field records the run of failed reads the thread has seen, up to
\* MaxFailures.
CamRead(t, outcome) ==
    /\ threads[t].pc = "loop"
    /\ IF ~LoopCondition(p_impl)
       THEN threads' = [threads EXCEPT ![t].pc = IF p_impl = "core" THEN "finally"
                                                 ELSE "done"]
       ELSE /\ handles[cap] # "open" => outcome = "noframe"
            /\ CASE outcome = "frame" ->
                      threads' = [threads EXCEPT ![t].pc = "write", ![t].failures = 0]
                 [] outcome = "noframe" ->
                      /\ p_impl \in {"core", "legacy"}
                      /\ threads[t].failures < MaxFailures
                      /\ threads' =
                           IF p_impl = "core" /\ threads[t].failures + 1 >= MaxFailures
                           THEN [threads EXCEPT ![t].failures = @ + 1,
                                                ![t].pc = "finally", ![t].fault = TRUE]
                           ELSE [threads EXCEPT ![t].failures = @ + 1]
                 [] outcome = "raise" ->
                      /\ p_impl # "core"
                      /\ threads' = [threads EXCEPT ![t].pc = "done", ![t].fault = TRUE]
    /\ UNCHANGED <<is_running, cap, handles, capture_thread, detection_thread,
                   current_frame, detected_faces, stop_pc, call, stopped, camera_index,
                   camFrame>>

\* "with self.lock: self.current_frame = frame.copy()"; in FaceDetector
\* _process_frame publishes detected_faces first, unless it raised inside
CamWrite(t) ==
    /\ threads[t].pc = "write"
    /\ current_frame' = 1
    /\ IF p_impl = "detector"
       THEN \E faces \in SomeFaces \cup {detected_faces} : detected_faces' = faces
       ELSE UNCHANGED detected_faces
    /\ threads' = [threads EXCEPT ![t].pc = "loop"]
    /\ UNCHANGED <<is_running, cap, handles, capture_thread, detection_thread, stop_pc,
                   call, stopped, camera_index, camFrame>>

\* the finally block of SimpleCamera._capture_frames (src/core)
CamFinally(t) ==
    /\ threads[t].pc = "finally"
    /\ is_running' = FALSE
    /\ current_frame' = 0
    /\ threads' = [threads EXCEPT ![t].pc = "done"]
    /\ UNCHANGED <<cap, handles, capture_thread, detection_thread, detected_faces,
                   stop_pc, call, stopped, camera_index, camFrame>>

CamLoopStep ==
    /\ \E t \in DOMAIN threads :
          \/ \E outcome \in ReadOutcomes : CamRead(t, outcome)
          \/ CamWrite(t)
          \/ CamFinally(t)
    /\ UNCHANGED detection_active

NextCam == CamStart \/ CamStopSignal \/ CamStopFinish \/ CamLoopStep

SpecCam == InitCam /\ [][NextCam]_vars

\* C6: when the background loop of FaceDetector or of SimpleCamera (src/core)
\* ends because of a fault, is_running is False and the fault has been recorded
\* where it can be read afterwards.
C6_FaultStopsAndIsRecorded ==
    [][\A t \in DOMAIN threads :
          (/\ p_impl \in {"detector", "core"}
           /\ threads[t].pc # "done" /\ threads'[t].pc = "done" /\ threads'[t].fault)
          => (is_running' = FALSE /\ last_error' # None)]_vars

\* C8: a start in the Stopped state with a device index that cannot be opened,
\* or cannot be read, returns failure, leaves is_running False, spawns no
\* thread and leaves cap None; the start that follows a failed one, with a
\* working device, succeeds and spawns exactly one thread.
C8_FailedStartLeavesNothing ==
    [][\A openable \in SUBSET CameraIndices, readable \in BOOLEAN :
          (~is_running /\ start_camera(openable, readable)) =>
             IF camera_index \notin openable \/ ~readable
             THEN /\ call'.ok = FALSE
                  /\ is_running' = FALSE
                  /\ threads' = threads
                  /\ cap' = 0
             ELSE (call.op = "start" /\ ~call.ok) =>
                  /\ call'.ok = TRUE
                  /\ is_running' = TRUE
                  /\ Len(threads') = Len(threads) + 1]_vars

(***************************************************************************)
(* SpecEnroll: the gallery calls of FallbackFaceRecognition and            *)
(* OpenCVSimpleFaceRecognition, as whole calls, with the faces a detection *)
(* cycle observes in between.                                              *)
(* FallbackFaceRecognition keeps every sample, so the samples the gallery   *)
(* may hold before a further add are bounded.                              *)
(***************************************************************************)
MaxKept == 11

InitEnroll ==
    /\ g_impl \in AllGalleryImpls \ GalleryImpls
    /\ known_faces = <<>>
    /\ face_labels = <<>>
    /\ is_trained = FALSE
    /\ recognizer = {}
    /\ disk = NoDisk
    /\ ret = [op |-> "init", id |-> None, ok |-> TRUE]
    /\ removedIds = {}
    /\ rec = NoRec
    /\ RaceIdle /\ TrackIdle /\ LifeIdle
    /\ ReadIdle /\ AppIdle /\ StageIdle

enrollFrame == <<c_pc, c_call, ncalls, d_pc, d_model, d_label, d_labels, committed,
                 detected_faces, confidence_threshold, now, cycles, freshKeys, readVars, appVars, stageVars, lifeVars>>

EnrollAdd ==
    /\ \E id \in StudentIds, name \in StudentNames, img \in GoodImages \cup BadImages,
          trainOk \in BOOLEAN :
          /\ TotalSamples(known_faces) < MaxKept
          /\ add_student_face(id, name, img, trainOk)
    /\ UNCHANGED enrollFrame

EnrollRemove ==
    /\ \E id \in StudentIds, trainOk \in BOOLEAN : remove_student_face(id, trainOk)
    /\ UNCHANGED enrollFrame

\* what face_recognizer.predict does for one observed face: it raises, or
\* returns a label of the trained model and a distance
PredictOutcomes(model) ==
    {<<"raise", -1, -1>>} \cup
    {<<"ok", l, d>> : l \in PredictableLabels(model), d \in Distances}

\* the body of "for (x, y, w, h) in faces" in _detect_faces: the entry that
\* is appended for one observed face
detect_face(outcome) ==
    /\ ~CycleRaises(g_impl)
    /\ IF RecognitionGate(g_impl, is_trained, known_faces) /\ outcome[1] = "ok"
       THEN LET r == Identify(g_impl, face_labels, confidence_threshold,
                              outcome[2], outcome[3])
            IN rec' = [subject |-> "face", label |-> outcome[2], dist |-> outcome[3],
                       student_id |-> r.student_id, name |-> r.name,
                       confidence |-> r.confidence]
       ELSE rec' = [NoRec EXCEPT !.subject = "face"]
    /\ UNCHANGED <<g_impl, known_faces, face_labels, is_trained, recognizer, disk, ret,
                   removedIds, detection_history>>

EnrollObserve ==
    /\ \E outcome \in PredictOutcomes(recognizer) : detect_face(outcome)
    /\ UNCHANGED enrollFrame

NextEnroll == EnrollAdd \/ EnrollRemove \/ EnrollObserve

SpecEnroll == InitEnroll /\ [][NextEnroll]_vars

\* C13: when train_recognizer() has run inside a gallery call of
\* EnhancedFaceRecognition, FallbackFaceRecognition or
\* OpenCVSimpleFaceRecognition (cv2's train not raising), is_trained is False
\* with fewer than 2 samples in the gallery and True with 2 or more.
C13_TrainingGate ==
    [][\A id \in StudentIds, name \in StudentNames, img \in GoodImages :
          (g_impl \in {"enhanced", "fallback", "simple"}
           /\ add_student_face(id, name, img, TRUE))
          => (is_trained' <=> TotalSamples(known_faces') >= 2)]_vars

\* C14: in AdvancedFaceDetection, OpenCVFaceDetector and
\* FallbackFaceRecognition no identity ever holds more than 10 samples.
C14_SampleCap ==
    g_impl \in {"advanced", "opencv", "fallback"} =>
        \A id \in DOMAIN known_faces : Len(known_faces[id].images) <= MaxSamples

\* C20: a face observed in a detection cycle that is not matched (gallery
\* untrained or empty, prediction raising, distance beyond the threshold, label
\* unknown) is entered with student_id None, name Unknown and confidence 0.
C20_NonMatchIsUnknownZero ==
    (rec.subject = "face" /\ rec.student_id = None)
    => (rec.name = "Unknown" /\ rec.confidence = 0)

\* C18: when add_student_face returns failure (image missing or unreadable, no
\* face found, training failed) in AdvancedFaceDetection or
\* OpenCVSimpleFaceRecognition, known_faces, face_labels, is_trained and the
\* persisted store are as they were before the call.
C18_FailedAddChangesNothing ==
    [][\A id \in StudentIds, name \in StudentNames, img \in GoodImages \cup BadImages,
          trainOk \in BOOLEAN :
          (g_impl \in {"advanced", "simple"}
           /\ add_student_face(id, name, img, trainOk) /\ ~ret'.ok)
          => UNCHANGED <<known_faces, face_labels, is_trained, disk>>]_vars

\* C19: in AdvancedFaceDetection and OpenCVFaceDetector, remove_student_face(id)
\* for an enrolled id returns success, after which id is no key of known_faces,
\* no face_labels entry names id, and the known_faces and face_labels entries of
\* every other identity are as before; for an id that is not enrolled it
\* returns failure and changes nothing.
C19_RemoveIsExact ==
    [][\A id \in StudentIds, trainOk \in BOOLEAN :
          (g_impl \in {"advanced", "opencv"} /\ remove_student_face(id, trainOk))
          => IF id \in DOMAIN known_faces
             THEN /\ ret'.ok
                  /\ id \notin DOMAIN known_faces'
                  /\ \A l \in DOMAIN face_labels' : face_labels'[l].student_id # id
                  /\ \A j \in DOMAIN known_faces \ {id} :
                        j \in DOMAIN known_faces' /\ known_faces'[j] = known_faces[j]
                  /\ \A l \in DOMAIN face_labels :
                        face_labels[l].student_id # id =>
                           l \in DOMAIN face_labels' /\ face_labels'[l] = face_labels[l]
             ELSE /\ ~ret'.ok
                  /\ UNCHANGED <<known_faces, face_labels, is_trained, recognizer,
                                 disk>>]_vars

(***************************************************************************)
(* SpecLifeFair: SpecLife with every created thread scheduled again and    *)
(* again (the interpreter switches threads; cap.read(), the sleeps and the *)
(* lock acquisitions return).  start and stop are calls of the             *)
(* application and are under no obligation to happen.                      *)
(***************************************************************************)
LifeThread(t) ==
    /\ t \in DOMAIN threads
    /\ \/ CaptureRead(t) \/ CaptureWrite(t)
       \/ DetectTake(t) \/ DetectWake(t) \/ DetectPublish(t)

SpecLifeFair == SpecLife /\ \A t \in 1..MaxThreads : WF_vars(LifeThread(t))

\* C15: once is_running is False for good (stop_detection has run and no start
\* follows), every capture and detection thread terminates; and a thread that
\* evaluates its loop test while is_running is False leaves the loop at that
\* test.
C15_ThreadsTerminate ==
    /\ <>[](~is_running) => <>[](\A t \in DOMAIN threads : threads[t].pc = "done")
    /\ [][\A t \in DOMAIN threads :
             (~is_running /\ threads[t].pc = "loop" /\ threads'[t].pc # "loop")
             => threads'[t].pc = "done"]_vars

\* stop_detection has returned and both threads of the session are over
C15_Witness ==
    /\ stopped = "yes" /\ ~is_running
    /\ Len(threads) = 2
    /\ \A t \in DOMAIN threads : threads[t].pc = "done"

\* Stopped, as stop_detection leaves an instance (or __init__ made it): flag
\* down, no device, no live thread, nothing published
Stopped ==
    /\ ~is_running
    /\ cap = 0
    /\ \A t \in DOMAIN threads : threads[t].pc = "done"
    /\ current_frame = 0
    /\ detected_faces = <<>>

\* C17: every step of stop_detection() taken while the instance is Stopped
\* leaves is_running, the device, the threads, the latest frame, the detected
\* faces and the gallery as they were, and the call returns success.
C17_StopWhileStoppedIsNoOp ==
    [][(Stopped /\ (StopSignal \/ StopJoined \/ StopClear))
       => /\ UNCHANGED <<is_running, cap, handles, capture_thread, detection_thread,
                         threads, thread_lock, current_frame, detected_faces,
                         detection_history, galleryVars>>
          /\ Stopped'
          /\ stop_pc' = "idle" => (call'.op = "stop" /\ call'.ok)]_vars

\* a stop_detection() in progress on an instance that the previous call, also
\* a stop_detection(), left Stopped
C17_Witness ==
    /\ Stopped
    /\ stop_pc = "clear"
    /\ call = [op |-> "stop", ok |-> TRUE]
    /\ threads # <<>>

\* The same statement for SimpleCamera.stop_camera (src/core), over SpecCam:
\* there Stopped also has the capture_thread field at None, which stop_camera
\* assigns on its way out.
C17_StopCameraWhileStoppedIsNoOp ==
    [][(p_impl = "core" /\ Stopped /\ capture_thread = 0
          /\ (CamStopSignal \/ CamStopFinish))
       => /\ UNCHANGED <<is_running, cap, handles, capture_thread, detection_thread,
                         threads, current_frame, detected_faces, galleryVars>>
          /\ stop_pc' = "idle" => (call'.op = "stop" /\ call'.ok)]_vars

\* C16: in SimpleCamera._capture_frames (src/core and legacy) a successful read
\* puts the count of consecutive failed reads back to 0, a failed read before
\* the 10th in a row leaves the thread in its loop, the 10th in a row takes it
\* out of the loop, and when a thread that stopped itself ends, is_running is
\* False and the latest frame is None.
C16_SelfStopAfterTenFailures ==
    [][\A t \in DOMAIN threads :
          p_impl \in {"core", "legacy"} =>
            /\ (threads[t].pc = "loop" /\ threads'[t].pc = "write")
                  => threads'[t].failures = 0
            /\ threads'[t].failures = threads[t].failures + 1
                  => IF threads'[t].failures < MaxFailures
                     THEN threads'[t].pc = "loop"
                     ELSE threads'[t].pc # "loop"
            /\ (threads[t].fault /\ threads[t].pc = "finally" /\ threads'[t].pc = "done")
                  => (~is_running' /\ current_frame' = 0)]_vars

(***************************************************************************)
(* SpecRead: what a caller of get_frame / get_current_frame_raw /          *)
(* get_detected_faces receives, and what the capture and detection threads *)
(* do to it afterwards.  Frames, face lists and their entries are objects  *)
(* of a heap; fields and callers hold references.                          *)
(***************************************************************************)
ReadImpls == {"opencv", "advanced", "core"}
Pixels == {1, 2}
PublishedLists == {<<>>, <<"Unknown">>, <<"S1">>}
MaxObjects == 6

FrameObj(pix) == [kind |-> "frame", val |-> pix]
DictObj(face) == [kind |-> "dict", val |-> face]
ListObj(refs) == [kind |-> "list", val |-> refs]

\* what a holder of the reference sees: a list with the content of its entries
Value(h, ref) ==
    IF h[ref].kind = "list"
    THEN [i \in DOMAIN h[ref].val |-> h[h[ref].val[i]].val]
    ELSE h[ref].val

\* ndarray.copy() / list.copy(): a new object with the same content; the copy
\* of a list refers to the same entries
Copy(h, ref) == Append(h, h[ref])

HasFaces(impl) == impl # "core"

InitRead ==
    /\ GalleryInit /\ RaceIdle /\ AppIdle /\ StageIdle
    /\ detection_history = <<>> /\ confidence_threshold = 30
    /\ now = 0 /\ cycles = 0 /\ freshKeys = {}
    /\ p_impl \in ReadImpls
    /\ is_running = FALSE
    /\ cap = 0
    /\ handles = <<>>
    /\ capture_thread = 0
    /\ detection_thread = 0
    /\ threads = <<>>
    /\ thread_lock = 0
    /\ stop_pc = "idle"
    /\ call = [op |-> "init", ok |-> TRUE]
    /\ stopped = "no"
    /\ last_error = None
    /\ camera_index = 0
    /\ current_frame = 0
    /\ heap = IF HasFaces(p_impl) THEN <<ListObj(<<>>)>> ELSE <<>>
    /\ detected_faces = IF HasFaces(p_impl) THEN 1 ELSE 0
    /\ held = {}

readFrame == <<galleryVars, raceVars, appVars, stageVars, detection_history, confidence_threshold,
               now, cycles, freshKeys, p_impl, cap, handles, capture_thread,
               detection_thread, threads, thread_lock, stop_pc, call, stopped,
               last_error, camera_index>>

\* start_detection / start_camera with a camera that opens
ReadStart ==
    /\ ~is_running
    /\ is_running' = TRUE
    /\ UNCHANGED <<current_frame, detected_faces, heap, held, readFrame>>

\* stop_detection / stop_camera: the fields are bound to None and to a new []
ReadStop ==
    /\ is_running
    /\ is_running' = FALSE
    /\ CASE p_impl = "advanced" ->
              /\ Len(heap) < MaxObjects
              /\ heap' = Append(heap, ListObj(<<>>))
              /\ detected_faces' = Len(heap) + 1
              /\ current_frame' = 0
         [] p_impl = "core" ->
              /\ current_frame' = 0
              /\ UNCHANGED <<heap, detected_faces>>
         [] OTHER -> UNCHANGED <<heap, detected_faces, current_frame>>
    /\ UNCHANGED <<held, readFrame>>

\* _capture_frames: "self.current_frame = frame.copy()" binds the field to a
\* new array
capture_frame(pix) ==
    /\ is_running
    /\ Len(heap) < MaxObjects
    /\ heap' = Append(heap, FrameObj(pix))
    /\ current_frame' = Len(heap) + 1
    /\ UNCHANGED <<is_running, detected_faces, held, readFrame>>

\* _detect_faces rewriting the entries of the published list where they are
publish_faces_InPlace(faces) ==
    /\ is_running /\ HasFaces(p_impl) /\ ~CycleRaises(p_impl)
    /\ current_frame # 0
    /\ IF Len(faces) = Len(heap[detected_faces].val)
       THEN /\ Len(heap) < MaxObjects
            /\ heap' = Append([o \in DOMAIN heap |->
                                 IF \E k \in DOMAIN faces : heap[detected_faces].val[k] = o
                                 THEN DictObj(faces[CHOOSE k \in DOMAIN faces :
                                                        heap[detected_faces].val[k] = o])
                                 ELSE heap[o]],
                              ListObj(heap[detected_faces].val))
            /\ detected_faces' = Len(heap) + 1
       ELSE /\ Len(heap) + Len(faces) < MaxObjects
            /\ heap' = heap \o [i \in 1..Len(faces) |-> DictObj(faces[i])]
                            \o <<ListObj([i \in 1..Len(faces) |-> Len(heap) + i])>>
            /\ detected_faces' = Len(heap) + Len(faces) + 1
    /\ UNCHANGED <<is_running, current_frame, held, readFrame>>

\* _detect_faces: a new dict per face, appended to a new list, and
\* "self.detected_faces = detected_faces_data"
publish_faces(faces) ==
    /\ is_running /\ HasFaces(p_impl) /\ ~CycleRaises(p_impl)
    /\ current_frame # 0
    /\ Len(heap) + Len(faces) < MaxObjects
    /\ heap' = heap \o [i \in 1..Len(faces) |-> DictObj(faces[i])]
                    \o <<ListObj([i \in 1..Len(faces) |-> Len(heap) + i])>>
    /\ detected_faces' = Len(heap) + Len(faces) + 1
    /\ UNCHANGED <<is_running, current_frame, held, readFrame>>

\* get_frame() / get_current_frame_raw(): None, or a copy of the frame
get_frame ==
    /\ p_impl \in {"opencv", "core"}
    /\ current_frame # 0
    /\ Len(heap) < MaxObjects
    /\ heap' = Copy(heap, current_frame)
    /\ held' = held \cup {[ref |-> Len(heap) + 1, was |-> Value(heap, current_frame)]}
    /\ UNCHANGED <<is_running, current_frame, detected_faces, readFrame>>

\* get_detected_faces(): "return self.detected_faces.copy()"
get_detected_faces ==
    /\ HasFaces(p_impl)
    /\ Len(heap) < MaxObjects
    /\ heap' = Copy(heap, detected_faces)
    /\ held' = held \cup {[ref |-> Len(heap) + 1, was |-> Value(heap, detected_faces)]}
    /\ UNCHANGED <<is_running, current_frame, detected_faces, readFrame>>

ReadCapture == \E pix \in Pixels : capture_frame(pix)
ReadPublish == \E faces \in PublishedLists : publish_faces(faces)

NextRead ==
    \/ ReadStart \/ ReadStop \/ ReadCapture \/ ReadPublish
    \/ get_frame \/ get_detected_faces

SpecRead == InitRead /\ [][NextRead]_vars

\* C22: whatever a caller received from get_detected_faces() or from
\* get_frame() / get_current_frame_raw() still has the content it had when it
\* was returned: the list, its entries and the frame.
C22_ReturnedValuesStay == \A h \in held : Value(heap, h.ref) = h.was

\* a caller of OpenCVFaceDetector or SimpleCamera holds a frame, and the
\* capture thread has stored a different frame since
C22_Witness ==
    /\ p_impl \in {"opencv", "core"}
    /\ current_frame # 0
    /\ \E h \in held : /\ heap[h.ref].kind = "frame"
                       /\ current_frame > h.ref
                       /\ heap[current_frame].val # h.was

(***************************************************************************)
(* SpecPersist / SpecDamage: gallery calls and the construction of a new   *)
(* instance, which runs load_face_data on what the last instance saved.    *)
(* In SpecDamage a file may be absent or unreadable when it is loaded.     *)
(***************************************************************************)
PersistImpls == {"advanced", "fallback"}
Files == {"faces", "labels", "model"}
FileConds == {"ok", "missing", "corrupt"}
Conds == [Files -> FileConds]
AllOk == [f \in Files |-> "ok"]
Faulty(cond) == \E f \in Files : cond[f] # "ok"

EmptyGallery == [kf |-> <<>>, fl |-> <<>>, is_trained |-> FALSE, recognizer |-> {}]

\* a load that reads the model file whether or not the faces file held anyone
LoadFaceData_NoGalleryTest(impl, d, cond) ==
    LET kf == IF cond["faces"] = "ok" THEN d.faces ELSE <<>>
        fl == IF cond["labels"] = "ok" THEN d.labels ELSE <<>>
        untrained == [kf |-> kf, fl |-> fl, is_trained |-> FALSE, recognizer |-> {}]
    IN IF cond["faces"] = "corrupt" /\ d.faces # <<>>
       THEN EmptyGallery
       ELSE IF cond["labels"] = "corrupt" /\ d.labels # <<>>
       THEN IF impl # "fallback" THEN EmptyGallery
            ELSE [untrained EXCEPT !.fl = <<>>]
       ELSE IF cond["model"] # "missing" /\ d.model # {}
       THEN IF cond["model"] = "ok"
            THEN [untrained EXCEPT !.is_trained = TRUE, !.recognizer = d.model]
            ELSE untrained
       ELSE untrained

\* load_face_data on the files d as they read under cond: [kf, fl, is_trained,
\* recognizer].  A file that was never written does not exist; pickle.load or
\* open raising lands in the outer handler, which empties the gallery in
\* AdvancedFaceDetection, OpenCVFaceDetector and EnhancedFaceRecognition and
\* only prints in FallbackFaceRecognition;
\* face_recognizer.read raising lands in the inner handler
LoadFaceData(impl, d, cond) ==
    LET kf == IF cond["faces"] = "ok" THEN d.faces ELSE <<>>
        fl == IF cond["labels"] = "ok" THEN d.labels ELSE <<>>
        untrained == [kf |-> kf, fl |-> fl, is_trained |-> FALSE, recognizer |-> {}]
    IN IF cond["faces"] = "corrupt" /\ d.faces # <<>>
       THEN EmptyGallery
       ELSE IF cond["labels"] = "corrupt" /\ d.labels # <<>>
       THEN IF impl # "fallback" THEN EmptyGallery
            ELSE [untrained EXCEPT !.fl = <<>>]
       ELSE IF cond["model"] # "missing" /\ d.model # {} /\ DOMAIN kf # {}
       THEN IF cond["model"] = "ok"
            THEN [untrained EXCEPT !.is_trained = TRUE, !.recognizer = d.model]
            ELSE untrained
       ELSE untrained

\* a new instance: __init__ ends with self.load_face_data(); files that are
\* absent now stay absent
Restart(cond) ==
    /\ LET l == LoadFaceData(g_impl, disk, cond)
       IN /\ known_faces' = l.kf
          /\ face_labels' = l.fl
          /\ is_trained' = l.is_trained
          /\ recognizer' = l.recognizer
    /\ disk' = [f \in Files |-> IF cond[f] = "missing" THEN NoDisk[f] ELSE disk[f]]
    /\ ret' = [op |-> "init", id |-> None, ok |-> TRUE]
    /\ removedIds' = {}
    /\ rec' = NoRec
    /\ UNCHANGED <<g_impl, detection_history>>

InitPersist ==
    /\ g_impl \in PersistImpls
    /\ known_faces = <<>>
    /\ face_labels = <<>>
    /\ is_trained = FALSE
    /\ recognizer = {}
    /\ disk = NoDisk
    /\ ret = [op |-> "init", id |-> None, ok |-> TRUE]
    /\ removedIds = {}
    /\ rec = NoRec
    /\ RaceIdle /\ TrackIdle /\ LifeIdle
    /\ ReadIdle /\ AppIdle /\ StageIdle

persistFrame == <<raceVars, detected_faces, confidence_threshold, now, cycles, freshKeys,
                  readVars, appVars, stageVars, lifeVars>>

PersistAdd ==
    /\ \E id \in StudentIds, name \in StudentNames, img \in GoodImages \cup BadImages,
          trainOk \in BOOLEAN :
            /\ TotalSamples(known_faces) < MaxKept
            /\ add_student_face(id, name, img, trainOk)
    /\ UNCHANGED persistFrame

PersistRemove ==
    /\ \E id \in StudentIds, trainOk \in BOOLEAN : remove_student_face(id, trainOk)
    /\ UNCHANGED persistFrame

PersistRestart == Restart(AllOk) /\ UNCHANGED persistFrame

DamagedRestart == (\E cond \in Conds : Restart(cond)) /\ UNCHANGED persistFrame

MaxStored == 3
MaxLabels == 2

\* add_student_face, while the gallery is small and few labels are in use (a
\* labels file that outlives its faces file makes the labels grow for ever)
DamageAdd ==
    /\ \E id \in StudentIds, name \in StudentNames, img \in GoodImages \cup BadImages,
          trainOk \in BOOLEAN :
            /\ TotalSamples(known_faces) < MaxStored
            /\ Cardinality(DOMAIN face_labels) < MaxLabels
            /\ add_student_face(id, name, img, trainOk)
    /\ UNCHANGED persistFrame

NextPersist == PersistAdd \/ PersistRemove \/ PersistRestart
NextDamage == DamageAdd \/ PersistRemove \/ DamagedRestart

SpecPersist == InitPersist /\ [][NextPersist]_vars
SpecDamage == InitPersist /\ [][NextDamage]_vars

\* C23: when load_face_data meets a missing, unreadable or corrupt faces,
\* labels or model file at construction (AdvancedFaceDetection,
\* FallbackFaceRecognition), the new instance has known_faces = {},
\* face_labels = {} and is_trained = False.
C23_DamagedStoreLoadsEmpty ==
    [][\A cond \in Conds :
          (g_impl \in PersistImpls /\ Restart(cond) /\ Faulty(cond))
          => (known_faces' = <<>> /\ face_labels' = <<>> /\ ~is_trained')]_vars

\* C24: a new instance of AdvancedFaceDetection, built after any sequence of
\* add_student_face / remove_student_face calls, holds the gallery the old
\* instance held: the same identities, samples, label map and trained flag.
C24_RestartKeepsGallery ==
    [][(g_impl = "advanced" /\ Restart(AllOk))
       => (known_faces' = known_faces /\ face_labels' = face_labels
           /\ is_trained' = is_trained)]_vars

(***************************************************************************)
(* SpecKey: the tracking step of OpenCVFaceDetector._detect_faces as it is *)
(* written (face_key and the detection_history update), applied to         *)
(* observed bounding boxes.  The step is taken here as a function of the   *)
(* box and the history; in the running class the cycle raises before it    *)
(* (CycleRaises).                                                          *)
(***************************************************************************)
BoxXs == {100, 101}
BoxYs == {50, 51}
BoxWs == {80, 81}
BoxHs == {80}
MaxCount == 2

\* face_key = f"{x}_{y}_{w}_{h}"
face_key(x, y, w, h) ==
    ToString(x) \o "_" \o ToString(y) \o "_" \o ToString(w) \o "_" \o ToString(h)

\* "if face_key not in self.detection_history: ... else: ..." for an
\* observation without a recognised identity, at time t
TrackObservation(hist, key, location, t) ==
    IF key \notin DOMAIN hist
    THEN (key :> [count |-> 1, first_seen |-> t, last_seen |-> t, student_id |-> None,
                  name |-> "Unknown", confidence |-> 0, location |-> location]) @@ hist
    ELSE [hist EXCEPT ![key].count = @ + 1, ![key].last_seen = t]

InitKey ==
    /\ GalleryInit /\ g_impl = "opencv"
    /\ RaceIdle /\ TrackIdle /\ LifeIdle /\ ReadIdle /\ AppIdle /\ StageIdle

track_observation(x, y, w, h) ==
    /\ LET key == face_key(x, y, w, h)
       IN /\ key \in DOMAIN detection_history => detection_history[key].count < MaxCount
          /\ detection_history' =
                TrackObservation(detection_history, key, <<x, y, w, h>>, now)
    /\ UNCHANGED <<galleryVars, raceVars, detected_faces, confidence_threshold, now, cycles,
                   freshKeys, lifeVars, readVars, appVars, stageVars>>

NextKey == \E x \in BoxXs, y \in BoxYs, w \in BoxWs, h \in BoxHs : track_observation(x, y, w, h)

SpecKey == InitKey /\ [][NextKey]_vars

\* C25: observations whose boxes differ only slightly (by one pixel in x, y, w
\* or h) get the same tracking key: detection_history never holds two entries
\* for such boxes.
C25_NearBoxesShareKey ==
    \A k1, k2 \in DOMAIN detection_history :
        (\A i \in 1..4 : detection_history[k1].location[i]
                              - detection_history[k2].location[i] \in {-1, 0, 1})
        => k1 = k2

(***************************************************************************)
(* SpecLeave: the leave requests of app.py (apply_leave, review_leave) and *)
(* the attendance records they and mark_manual_attendance write.  Dates    *)
(* are day numbers, now is date.today(), the same day throughout a run;    *)
(* each request is one transaction.                                        *)
(***************************************************************************)
MaxLeaves == 2
Students == {1, 2}
Dates == {1, 2}
LeaveTypes == {"Sick", "Holiday"}
ReasonLengths == {5, 20}
ReviewStatuses == {"Approved", "Rejected"}
LeaveIds == 1..MaxLeaves

\* validate_leave_request_data: the error messages for well-formed dates
ValidationErrors(leave_type, start, end, reason_len, today) ==
    (IF reason_len < 10 THEN {"Reason must be at least 10 characters long"} ELSE {})
    \cup (IF reason_len > 500 THEN {"Reason must be less than 500 characters"} ELSE {})
    \cup (IF leave_type \notin {"Sick", "Personal", "Family", "Academic", "Other"}
          THEN {"Invalid leave type selected"} ELSE {})
    \cup (IF end < start THEN {"End date cannot be before start date"} ELSE {})
    \cup (IF start < today - 7
          THEN {"Start date cannot be more than 7 days in the past"} ELSE {})
    \cup (IF end > today + 365
          THEN {"End date cannot be more than 1 year in the future"} ELSE {})

\* LeaveRequest.query.filter(student_id ==, status != 'Rejected',
\* start_date <= end, end_date >= start).first() is not None
OverlapsExisting(rows, student, start, end) ==
    \E i \in DOMAIN rows :
        /\ rows[i].student_id = student
        /\ rows[i].status # "Rejected"
        /\ rows[i].start_date <= end
        /\ rows[i].end_date >= start

ExistingRecord_None(recs, student, day) == 0

\* AttendanceRecord.query.filter_by(student_id=, date=).first(): the row's
\* position, 0 for None
ExistingRecord(recs, student, day) ==
    IF \E i \in DOMAIN recs : recs[i].student_id = student /\ recs[i].date = day
    THEN CHOOSE i \in DOMAIN recs :
            /\ recs[i].student_id = student /\ recs[i].date = day
            /\ \A j \in DOMAIN recs :
                  (recs[j].student_id = student /\ recs[j].date = day) => i <= j
    ELSE 0

\* review_leave: "while current_date <= leave_request.end_date"
RECURSIVE MarkOnLeave(_, _, _, _)
MarkOnLeave(recs, student, current_date, end_date) ==
    IF current_date > end_date THEN recs
    ELSE LET i == ExistingRecord(recs, student, current_date)
             marked == IF i # 0
                       THEN [recs EXCEPT ![i].status = "On Leave"]
                       ELSE Append(recs, [student_id |-> student, date |-> current_date,
                                          status |-> "On Leave"])
         IN MarkOnLeave(marked, student, current_date + 1, end_date)

InitLeave ==
    /\ GalleryInit /\ g_impl = "advanced" /\ RaceIdle /\ LifeIdle /\ ReadIdle
    /\ detection_history = <<>> /\ detected_faces = <<>> /\ confidence_threshold = 30
    /\ cycles = 0 /\ freshKeys = {}
    /\ now \in Dates
    /\ inflight = <<>>
    /\ detection_active = FALSE
    /\ leave_requests = <<>>
    /\ attendance_records = <<>>
    /\ flashed = None
    /\ StageIdle

leaveFrame == <<galleryVars, raceVars, detection_history, detected_faces,
                confidence_threshold, cycles, freshKeys, lifeVars, readVars, inflight,
                detection_active, stageVars>>

\* POST /apply_leave
apply_leave(student, leave_type, start, end, reason_len) ==
    /\ Len(leave_requests) < MaxLeaves
    /\ IF ValidationErrors(leave_type, start, end, reason_len, now) # {}
       THEN flashed' = "error" /\ UNCHANGED leave_requests
       ELSE IF OverlapsExisting(leave_requests, student, start, end)
       THEN flashed' = "warning" /\ UNCHANGED leave_requests
       ELSE /\ leave_requests' = Append(leave_requests,
                  [student_id |-> student, leave_type |-> leave_type,
                   start_date |-> start, end_date |-> end, status |-> "Pending"])
            /\ flashed' = "success"
    /\ UNCHANGED <<attendance_records, now, leaveFrame>>

\* POST /review_leave; an unknown leave_id makes get_or_404 raise, which the
\* handler reports as an error
review_leave(leave_id, status) ==
    /\ IF leave_id \notin DOMAIN leave_requests
       THEN flashed' = "error" /\ UNCHANGED <<leave_requests, attendance_records>>
       ELSE /\ leave_requests' = [leave_requests EXCEPT ![leave_id].status = status]
            /\ attendance_records' =
                  IF status = "Approved"
                  THEN MarkOnLeave(attendance_records, leave_requests[leave_id].student_id,
                                   leave_requests[leave_id].start_date,
                                   leave_requests[leave_id].end_date)
                  ELSE attendance_records
            /\ flashed' = "success"
    /\ UNCHANGED <<now, leaveFrame>>

\* POST /mark_manual_attendance for an active student
mark_manual_attendance(student) ==
    /\ IF ExistingRecord(attendance_records, student, now) # 0
       THEN flashed' = "warning" /\ UNCHANGED attendance_records
       ELSE /\ attendance_records' = Append(attendance_records,
                  [student_id |-> student, date |-> now, status |-> "Present"])
            /\ flashed' = "success"
    /\ UNCHANGED <<leave_requests, now, leaveFrame>>

ApplyLeave ==
    \E student \in Students, leave_type \in LeaveTypes, start \in Dates, end \in Dates,
       reason_len \in ReasonLengths : apply_leave(student, leave_type, start, end, reason_len)

ReviewLeave == \E leave_id \in LeaveIds, status \in ReviewStatuses : review_leave(leave_id, status)

MarkAttendance == \E student \in Students : mark_manual_attendance(student)

NextLeave == ApplyLeave \/ ReviewLeave \/ MarkAttendance

SpecLeave == InitLeave /\ [][NextLeave]_vars

C27_NoOverlappingLeave ==
    \A i, j \in DOMAIN leave_requests :
        (/\ i # j
         /\ leave_requests[i].student_id = leave_requests[j].student_id
         /\ leave_requests[i].status # "Rejected"
         /\ leave_requests[j].status # "Rejected")
        => \/ leave_requests[i].end_date < leave_requests[j].start_date
           \/ leave_requests[j].end_date < leave_requests[i].start_date

\* C28: in the label-based galleries (AdvancedFaceDetection,
\* OpenCVFaceDetector) two enrolled identities never have the same label_id,
\* and for every enrolled identity X face_labels[known_faces[X].label_id]
\* exists and names X.
C28_LabelsAreOneToOne ==
    g_impl \in {"advanced", "opencv"}
    => /\ \A x, y \in DOMAIN known_faces :
             x # y => known_faces[x].label_id # known_faces[y].label_id
       /\ \A x \in DOMAIN known_faces :
             /\ known_faces[x].label_id \in DOMAIN face_labels
             /\ face_labels[known_faces[x].label_id].student_id = x

\* C29: in SimpleCamera (src/core), once a later start_camera has succeeded,
\* the capture thread of an earlier session takes no further frame from the
\* device and writes none, and its cleanup block changes neither is_running
\* nor current_frame.
C29_LateThreadLeavesNewSessionAlone ==
    [][\A t \in DOMAIN threads :
          (p_impl = "core" /\ capture_thread # 0 /\ t < capture_thread)
          => /\ ~(threads[t].pc = "loop" /\ threads'[t].pc = "write")
             /\ ~CamWrite(t)
             /\ CamFinally(t) => (is_running' = is_running
                                    /\ current_frame' = current_frame)]_vars

\* C30: in OpenCVFaceDetector and AdvancedFaceDetection, whenever is_running
\* is True the instance's cap is an opened device and its capture thread is
\* alive to read from it.
C30_RunningHoldsOpenDevice ==
    (p_impl \in {"opencv", "advanced"} /\ is_running)
    => /\ cap # 0
       /\ handles[cap] = "open"
       /\ capture_thread \in Alive("capture")

\* C31: add_student_face for an identity that is already enrolled leaves it
\* with its earlier samples followed by the new ones, cut to the last
\* MaxSamples of that sequence (AdvancedFaceDetection, OpenCVFaceDetector,
\* EnhancedFaceRecognition).
C31_ReEnrolAppendsThenCaps ==
    [][\A id \in StudentIds, name \in StudentNames, img \in GoodImages,
          trainOk \in BOOLEAN :
          (id \in DOMAIN known_faces /\ add_student_face(id, name, img, trainOk))
          => known_faces'[id].images =
                LastN(known_faces[id].images \o FaceSamples(g_impl, img), MaxSamples)]_vars

(***************************************************************************)
(* SpecRename: the gallery calls of AdvancedFaceDetection and              *)
(* EnhancedFaceRecognition for one identity that is enrolled under one     *)
(* display name and enrolled again under another.                          *)
(***************************************************************************)
DisplayNames == {"Alice", "Alicia"}
RenamedIds == {"S1"}

InitRename == InitGallery /\ g_impl \in {"advanced", "enhanced"}

RenameAdd ==
    /\ \E id \in RenamedIds, name \in DisplayNames, img \in GoodImages,
          trainOk \in BOOLEAN : add_student_face(id, name, img, trainOk)
    /\ UNCHANGED <<raceVars, detected_faces, confidence_threshold, now, cycles,
                   freshKeys, readVars, appVars, stageVars, lifeVars>>

NextRename == RenameAdd \/ RemoveCall \/ RecognizeCall

SpecRename == InitRename /\ [][NextRename]_vars

\* C32: when add_student_face succeeds for an identity that is enrolled under
\* another display name, the name face_labels holds for the identity (the
\* name a recognition reports) is the new name, as the name in known_faces is.
C32_LabelNameFollowsRename ==
    [][\A id \in RenamedIds, name \in DisplayNames, img \in GoodImages,
          trainOk \in BOOLEAN :
          (/\ id \in DOMAIN known_faces
           /\ known_faces[id].name # name
           /\ add_student_face(id, name, img, trainOk)
           /\ ret'.ok)
          => /\ known_faces'[id].name = name
             /\ \A l \in DOMAIN face_labels' :
                   face_labels'[l].student_id = id => face_labels'[l].name = name]_vars

(***************************************************************************)
(* SpecMark: the handlers of app.py that write attendance records, each    *)
(* running in its own request thread: the lookup of the day's record is    *)
(* one step and the write with db.session.commit() a later one, so that    *)
(* other requests can run in between.                                      *)
(***************************************************************************)
\* requests between lookup and commit at one time; rows of attendance_records
MaxInflight == 2
MaxRecords == 2

\* the handlers that add a 'Present' record when the lookup found none
CreatingHandlers == {"mark_manual_attendance", "mark_student_present",
                     "auto_mark_attendance"}

\* status of /mark_student_status/<student_id>/<status>
QuickStatuses == {"Late"}

\* the days of first..last on which the lookup finds a record of the student
SeenDays(recs, student, first, last) ==
    {d \in first..last : ExistingRecord(recs, student, d) # 0}

\* the loop of review_leave with the lookups' results given
RECURSIVE MarkOnLeaveSeen(_, _, _, _, _)
MarkOnLeaveSeen(recs, student, current_date, end_date, seen) ==
    IF current_date > end_date THEN recs
    ELSE LET i == ExistingRecord(recs, student, current_date)
             marked == IF current_date \in seen
                       THEN [recs EXCEPT ![i].status = "On Leave"]
                       ELSE Append(recs, [student_id |-> student, date |-> current_date,
                                          status |-> "On Leave"])
         IN MarkOnLeaveSeen(marked, student, current_date + 1, end_date, seen)

Remove(seq, i) == SubSeq(seq, 1, i - 1) \o SubSeq(seq, i + 1, Len(seq))

InitMark == InitLeave

markFrame == <<galleryVars, raceVars, detection_history, detected_faces,
               confidence_threshold, cycles, freshKeys, lifeVars, readVars,
               detection_active, now, stageVars>>

\* "existing_record = AttendanceRecord.query.filter_by(student_id=, date=today)
\* .first()" of mark_manual_attendance, mark_student_present,
\* auto_mark_attendance (one recognised face) and mark_student_status
lookup_today(handler, student, status) ==
    /\ Len(inflight) < MaxInflight
    /\ inflight' = Append(inflight,
          [handler |-> handler, student_id |-> student, status |-> status,
           leave_id |-> 0,
           seen |-> SeenDays(attendance_records, student, now, now)])
    /\ UNCHANGED <<leave_requests, attendance_records, flashed, markFrame>>

\* the rest of the handler: the branch on existing_record and the commit.
\* mark_student_status passes marked_by='Manual' to AttendanceRecord, which
\* has no such column: its branch for a missing record raises and adds nothing
commit_today(i) ==
    LET r == inflight[i] IN
    /\ r.leave_id = 0
    /\ IF r.handler \in CreatingHandlers
       THEN IF now \in r.seen
            THEN /\ UNCHANGED attendance_records
                 /\ flashed' = IF r.handler = "mark_manual_attendance" THEN "warning"
                               ELSE flashed
            ELSE /\ Len(attendance_records) < MaxRecords
                 /\ attendance_records' = Append(attendance_records,
                       [student_id |-> r.student_id, date |-> now, status |-> "Present"])
                 /\ flashed' = IF r.handler = "mark_manual_attendance" THEN "success"
                               ELSE flashed
       ELSE IF now \in r.seen
            THEN /\ attendance_records' =
                       [attendance_records EXCEPT
                          ![ExistingRecord(attendance_records, r.student_id, now)].status =
                              r.status]
                 /\ flashed' = "success"
            ELSE UNCHANGED <<attendance_records, flashed>>
    /\ inflight' = Remove(inflight, i)
    /\ UNCHANGED <<leave_requests, markFrame>>

\* review_leave with status 'Approved': the lookups of its loop
lookup_leave(leave_id) ==
    /\ Len(inflight) < MaxInflight
    /\ leave_id \in DOMAIN leave_requests
    /\ LET l == leave_requests[leave_id] IN
       inflight' = Append(inflight,
          [handler |-> "review_leave", student_id |-> l.student_id,
           status |-> "Approved", leave_id |-> leave_id,
           seen |-> SeenDays(attendance_records, l.student_id, l.start_date, l.end_date)])
    /\ UNCHANGED <<leave_requests, attendance_records, flashed, markFrame>>

\* review_leave: the records its loop converts or adds, and db.session.commit()
commit_leave(i) ==
    LET r == inflight[i]
        l == leave_requests[r.leave_id]
        marked == MarkOnLeaveSeen(attendance_records, l.student_id, l.start_date,
                                  l.end_date, r.seen)
    IN /\ r.leave_id # 0
       /\ Len(marked) <= MaxRecords
       /\ attendance_records' = marked
       /\ leave_requests' = [leave_requests EXCEPT ![r.leave_id].status = "Approved"]
       /\ flashed' = "success"
       /\ inflight' = Remove(inflight, i)
       /\ UNCHANGED markFrame

MarkLookup ==
    \/ \E handler \in CreatingHandlers, student \in Students :
          lookup_today(handler, student, "Present")
    \/ \E student \in Students, status \in QuickStatuses :
          lookup_today("mark_student_status", student, status)

MarkCommit == \E i \in DOMAIN inflight : commit_today(i)

MarkApply ==
    \E student \in Students, start \in Dates, end \in Dates :
        apply_leave(student, "Sick", start, end, 20)

LeaveLookup == \E leave_id \in LeaveIds : lookup_leave(leave_id)

LeaveCommit == \E i \in DOMAIN inflight : commit_leave(i)

NextMark == MarkLookup \/ MarkCommit \/ MarkApply \/ LeaveLookup \/ LeaveCommit

SpecMark == InitMark /\ [][NextMark]_vars

\* C33: attendance_records never holds two records of the same student for
\* the same date.
C33_OneRecordPerStudentAndDate ==
    \A i, j \in DOMAIN attendance_records :
        (/\ attendance_records[i].student_id = attendance_records[j].student_id
         /\ attendance_records[i].date = attendance_records[j].date)
        => i = j

(***************************************************************************)
(* SpecRoute: the routes /start_detection and /stop_detection of app.py    *)
(* with their flag detection_active, over the SimpleCamera of src/core.    *)
(***************************************************************************)
InitRoute == InitCam /\ p_impl = "core"

\* POST /start_detection: with the flag set the request is answered
\* 'Camera already active'; otherwise the flag follows start_camera()
start_detection_route(openable, readable) ==
    IF detection_active
    THEN /\ call' = [op |-> "start", ok |-> FALSE]
         /\ UNCHANGED <<is_running, cap, handles, capture_thread, detection_thread,
                        threads, camera_index, stopped, current_frame, detected_faces,
                        stop_pc, camFrame, detection_active>>
    ELSE /\ start_camera(openable, readable)
         /\ detection_active' = call'.ok

RouteStart ==
    \E openable \in SUBSET CameraIndices, readable \in BOOLEAN :
        start_detection_route(openable, readable)

\* POST /stop_detection: simple_camera.stop_camera() has returned, then
\* detection_active = False
RouteStopFinish == stop_camera_finish /\ detection_active' = FALSE

NextRoute == RouteStart \/ CamStopSignal \/ RouteStopFinish \/ CamLoopStep

SpecRoute == InitRoute /\ [][NextRoute]_vars

\* C34: when the capture thread has stopped itself and no /stop_detection is
\* in progress, a /start_detection request with a working camera is accepted
\* and starts the camera.
C34_StartAfterSelfStop ==
    [][\A openable \in SUBSET CameraIndices, readable \in BOOLEAN :
          (/\ capture_thread # 0
           /\ threads[capture_thread].pc = "done"
           /\ threads[capture_thread].fault
           /\ ~is_running
           /\ stop_pc = "idle"
           /\ camera_index \in openable /\ readable
           /\ start_detection_route(openable, readable))
          => (call'.ok /\ is_running')]_vars

(***************************************************************************)
(* SpecStage: the stages of OpenCVFaceDetector between the cascade and the *)
(* recognition, as functions of the boxes the cascade returned and of the  *)
(* frame's shape: the quality filter and the limit of _detect_faces, the   *)
(* padded crop of _detect_faces and of add_student_face.                   *)
(***************************************************************************)
\* boxes the cascade returns for one frame
MaxCandidates == 3

\* gray.shape: <<rows, columns>>
GrayShapes == {<<480, 640>>, <<200, 250>>}

\* (x, y, w, h)
CandidateBoxes ==
    {<<100, 100, 100, 100>>, <<140, 100, 100, 100>>, <<150, 100, 100, 100>>,
     <<0, 0, 84, 120>>, <<10, 10, 80, 120>>, <<300, 300, 120, 80>>,
     <<540, 380, 100, 100>>, <<20, 20, 70, 70>>}

Min(a, b) == IF a <= b THEN a ELSE b
Max(a, b) == IF a >= b THEN a ELSE b

InFrame(box, shape) ==
    /\ box[1] >= 0 /\ box[2] >= 0 /\ box[3] > 0 /\ box[4] > 0
    /\ box[1] + box[3] <= shape[2]
    /\ box[2] + box[4] <= shape[1]

\* sequences of distinct boxes, up to n of them
BoxLists(n) ==
    {q \in UNION {[1..k -> CandidateBoxes] : k \in 0..n} :
        \A i, j \in DOMAIN q : q[i] = q[j] => i = j}

\* overlap_x * overlap_y
OverlapArea(a, b) ==
    Max(0, Min(a[1] + a[3], b[1] + b[3]) - Max(a[1], b[1]))
      * Max(0, Min(a[2] + a[4], b[2] + b[4]) - Max(a[2], b[2]))

\* "0.7 <= aspect_ratio <= 1.4 and w >= 80 and h >= 80"
QualityShape(box) ==
    /\ 10 * box[3] >= 7 * box[4]
    /\ 10 * box[3] <= 14 * box[4]
    /\ box[3] >= 80 /\ box[4] >= 80

\* "overlap_area > 0.5 * min(w * h, qw * qh)" for some kept face
IsDuplicate(box, kept) ==
    \E i \in DOMAIN kept :
        2 * OverlapArea(box, kept[i]) > Min(box[3] * box[4], kept[i][3] * kept[i][4])

\* a filter that never finds a duplicate
RECURSIVE QualityFilter_KeepsDuplicates(_, _)
QualityFilter_KeepsDuplicates(boxes, kept) ==
    IF boxes = <<>> THEN kept
    ELSE QualityFilter_KeepsDuplicates(Tail(boxes),
            IF QualityShape(Head(boxes)) THEN Append(kept, Head(boxes)) ELSE kept)

\* "Filter faces by quality and remove duplicates"
RECURSIVE QualityFilter(_, _)
QualityFilter(boxes, kept) ==
    IF boxes = <<>> THEN kept
    ELSE QualityFilter(Tail(boxes),
            IF QualityShape(Head(boxes)) /\ ~IsDuplicate(Head(boxes), kept)
            THEN Append(kept, Head(boxes)) ELSE kept)

\* a limit that lets every face through
LimitFaces_All(kept) == kept

\* "all_faces = quality_faces[:2] if len(quality_faces) > 2 else quality_faces"
LimitFaces(kept) == IF Len(kept) > 2 THEN SubSeq(kept, 1, 2) ELSE kept

\* a crop that does not clamp at the left and top edges
PaddedCrop_Unclamped(shape, box, percent) ==
    LET padding == (percent * Min(box[3], box[4])) \div 100
        x_pad == box[1] - padding
        y_pad == box[2] - padding
    IN <<x_pad, y_pad, Min(shape[2] - x_pad, box[3] + 2 * padding),
         Min(shape[1] - y_pad, box[4] + 2 * padding)>>

\* padding = int(0.1 * min(w, h)) (0.2 in add_student_face); x_pad, y_pad,
\* w_pad, h_pad
PaddedCrop(shape, box, percent) ==
    LET padding == (percent * Min(box[3], box[4])) \div 100
        x_pad == Max(0, box[1] - padding)
        y_pad == Max(0, box[2] - padding)
    IN <<x_pad, y_pad, Min(shape[2] - x_pad, box[3] + 2 * padding),
         Min(shape[1] - y_pad, box[4] + 2 * padding)>>

\* add_student_face: "0.75 <= aspect_ratio <= 1.25 and w >= 60 and h >= 60"
EnrolFilter(boxes) ==
    SelectSeq(boxes, LAMBDA b : /\ 100 * b[3] >= 75 * b[4]
                                /\ 100 * b[3] <= 125 * b[4]
                                /\ b[3] >= 60 /\ b[4] >= 60)

\* max(all_faces, key=lambda face: face[2] * face[3]): the first of the largest
LargestFace(boxes) ==
    boxes[CHOOSE i \in DOMAIN boxes :
            /\ \A j \in DOMAIN boxes : boxes[j][3] * boxes[j][4] <= boxes[i][3] * boxes[i][4]
            /\ \A j \in 1..(i - 1) : boxes[j][3] * boxes[j][4] < boxes[i][3] * boxes[i][4]]

InitStage ==
    /\ GalleryInit /\ g_impl = "opencv" /\ RaceIdle /\ TrackIdle /\ LifeIdle /\ ReadIdle
    /\ AppIdle
    /\ gray_shape \in GrayShapes
    /\ faces_frontal \in BoxLists(MaxCandidates)
    /\ \A i \in DOMAIN faces_frontal : InFrame(faces_frontal[i], gray_shape)
    /\ quality_faces = <<>>
    /\ all_faces = <<>>
    /\ face_roi = <<0, 0, 0, 0>>
    /\ detections = <<>>
    /\ dnn_faces = <<>>

stageFrame == <<galleryVars, raceVars, trackVars, lifeVars, readVars, appVars,
                faces_frontal, gray_shape, detections, dnn_faces>>

\* _detect_faces: the quality filter and the limit to two faces
filter_faces ==
    /\ quality_faces' = QualityFilter(faces_frontal, <<>>)
    /\ all_faces' = LimitFaces(QualityFilter(faces_frontal, <<>>))
    /\ UNCHANGED <<face_roi, stageFrame>>

\* _detect_faces: the padded region of the i-th of all_faces
crop_face(i) ==
    /\ i \in DOMAIN all_faces
    /\ face_roi' = PaddedCrop(gray_shape, all_faces[i], 10)
    /\ UNCHANGED <<quality_faces, all_faces, stageFrame>>

\* add_student_face: the padded region of the largest face of the image
crop_enrolment ==
    /\ EnrolFilter(faces_frontal) # <<>>
    /\ face_roi' = PaddedCrop(gray_shape, LargestFace(EnrolFilter(faces_frontal)), 20)
    /\ UNCHANGED <<quality_faces, all_faces, stageFrame>>

CropFace == \E i \in 1..2 : crop_face(i)

NextStage == filter_faces \/ CropFace \/ crop_enrolment

SpecStage == InitStage /\ [][NextStage]_vars

\* C35: every box the quality filter keeps has w/h within [0.7, 1.4] and
\* w, h >= 80, and no two kept boxes intersect in more than half the area
\* of the smaller of the two.
C35_QualityFilterKeeps ==
    /\ \A i \in DOMAIN quality_faces :
          /\ 10 * quality_faces[i][3] >= 7 * quality_faces[i][4]
          /\ 10 * quality_faces[i][3] <= 14 * quality_faces[i][4]
          /\ quality_faces[i][3] >= 80 /\ quality_faces[i][4] >= 80
    /\ \A i, j \in DOMAIN quality_faces :
          i # j => 2 * OverlapArea(quality_faces[i], quality_faces[j])
                     <= Min(quality_faces[i][3] * quality_faces[i][4],
                            quality_faces[j][3] * quality_faces[j][4])

\* the filter has dropped an overlapping box and a badly shaped one and has
\* kept a box that overlaps another kept one by exactly half
C35_Witness ==
    /\ Len(faces_frontal) = 3
    /\ Len(quality_faces) = 2
    /\ \E i \in DOMAIN faces_frontal :
          QualityShape(faces_frontal[i]) /\ IsDuplicate(faces_frontal[i], quality_faces)
             /\ \A k \in DOMAIN quality_faces : quality_faces[k] # faces_frontal[i]
    /\ 2 * OverlapArea(quality_faces[1], quality_faces[2])
          = quality_faces[1][3] * quality_faces[1][4]

\* C36: the padded rectangle computed for a detected box inside the frame
\* (padding 10% of min(w, h) in _detect_faces, 20% in add_student_face) lies
\* within the frame, has positive width and height and contains the box.
C36_PaddedCropInsideFrame ==
    [][LET Fits(r, b) ==
             /\ r[1] >= 0 /\ r[2] >= 0 /\ r[3] > 0 /\ r[4] > 0
             /\ r[1] + r[3] <= gray_shape[2]
             /\ r[2] + r[4] <= gray_shape[1]
             /\ r[1] <= b[1] /\ r[2] <= b[2]
             /\ b[1] + b[3] <= r[1] + r[3]
             /\ b[2] + b[4] <= r[2] + r[4]
       IN /\ \A i \in DOMAIN all_faces : crop_face(i) => Fits(face_roi', all_faces[i])
          /\ crop_enrolment
               => Fits(face_roi', LargestFace(EnrolFilter(faces_frontal)))]_vars

\* the rectangle of a box in the frame's corner, clamped at the left and top
\* edges and widened to the right and downwards
C36_Witness ==
    /\ face_roi[1] = 0 /\ face_roi[2] = 0
    /\ face_roi[3] > 84 /\ face_roi[4] > 120
    /\ \E i \in DOMAIN faces_frontal : faces_frontal[i] = <<0, 0, 84, 120>>

\* C37: a cycle of OpenCVFaceDetector hands at most 2 face regions on to
\* recognition and tracking, the first two the quality filter kept.
C37_AtMostTwoObservations ==
    /\ Len(all_faces) <= 2
    /\ \A i \in DOMAIN all_faces : all_faces[i] = quality_faces[i]

\* three faces pass the filter, two of them go on
C37_Witness == Len(quality_faces) = 3 /\ Len(all_faces) = 2

(***************************************************************************)
(* SpecDnn: AdvancedFaceDetection.detect_faces_dnn as a function of the    *)
(* frame's shape and of the rows the network returns.  A row is            *)
(* <<confidence in percent, x1, y1, x2, y2>> with the corners in tenths of *)
(* the frame's width and height.                                           *)
(***************************************************************************)
\* rows in detections (detections.shape[2])
MaxDetections == 3

DnnRows == {<<90, 1, 1, 5, 5>>, <<90, 2, 2, 8, 8>>, <<40, 1, 1, 5, 5>>, <<90, 4, 4, 5, 5>>}

\* detection_params['min_face_size'], ['max_face_size']
MinFaceSize == <<60, 60>>
MaxFaceSize == <<400, 400>>

\* int(detections[0, 0, i, k] * w)
Scaled(tenths, extent) == (tenths * extent) \div 10

\* the loop body for row i, with the w and h the loop holds at that point:
\* "h, w = frame.shape[:2]" before the loop, "x, y, w, h = x1, y1, x2 - x1,
\* y2 - y1" inside it
RECURSIVE DnnLoop(_, _, _, _, _)
DnnLoop(rows, i, w, h, faces) ==
    IF i > Len(rows) THEN faces
    ELSE IF rows[i][1] <= 50 THEN DnnLoop(rows, i + 1, w, h, faces)
    ELSE LET x1 == Scaled(rows[i][2], w)
             y1 == Scaled(rows[i][3], h)
             x2 == Scaled(rows[i][4], w)
             y2 == Scaled(rows[i][5], h)
             bw == x2 - x1
             bh == y2 - y1
             keep == /\ bw >= MinFaceSize[1] /\ bh >= MinFaceSize[2]
                     /\ bw <= MaxFaceSize[1] /\ bh <= MaxFaceSize[2]
         IN DnnLoop(rows, i + 1, bw, bh,
                    IF keep THEN Append(faces, <<x1, y1, bw, bh, rows[i][1]>>)
                    ELSE faces)

InitDnn ==
    /\ GalleryInit /\ g_impl = "advanced" /\ RaceIdle /\ TrackIdle /\ LifeIdle /\ ReadIdle
    /\ AppIdle
    /\ gray_shape \in GrayShapes
    /\ detections \in UNION {[1..k -> DnnRows] : k \in 0..MaxDetections}
    /\ faces_frontal = <<>>
    /\ quality_faces = <<>>
    /\ all_faces = <<>>
    /\ face_roi = <<0, 0, 0, 0>>
    /\ dnn_faces = <<>>

\* detect_faces_dnn(frame) with a loaded network
detect_faces_dnn ==
    /\ dnn_faces' = DnnLoop(detections, 1, gray_shape[2], gray_shape[1], <<>>)
    /\ UNCHANGED <<galleryVars, raceVars, trackVars, lifeVars, readVars, appVars,
                   faces_frontal, quality_faces, all_faces, gray_shape, face_roi,
                   detections>>

NextDnn == detect_faces_dnn

SpecDnn == InitDnn /\ [][NextDnn]_vars

\* C39: detect_faces_dnn returns, in the order of the network's rows, the box
\* of every row with confidence above 0.5 whose box passes the size filter,
\* each box being the row's corners scaled by the width and height of the
\* frame.
C39_EveryBoxScaledByFrame ==
    [][detect_faces_dnn =>
         LET box == [i \in DOMAIN detections |->
                       <<Scaled(detections[i][2], gray_shape[2]),
                         Scaled(detections[i][3], gray_shape[1]),
                         Scaled(detections[i][4], gray_shape[2])
                            - Scaled(detections[i][2], gray_shape[2]),
                         Scaled(detections[i][5], gray_shape[1])
                            - Scaled(detections[i][3], gray_shape[1]),
                         detections[i][1]>>]
         IN dnn_faces' =
               SelectSeq(box, LAMBDA b : /\ b[5] > 50
                                         /\ b[3] >= MinFaceSize[1] /\ b[4] >= MinFaceSize[2]
                                         /\ b[3] <= MaxFaceSize[1]
                                         /\ b[4] <= MaxFaceSize[2])]_vars

(***************************************************************************)
(* SpecBuild: the galleries that train an LBPH model, through              *)
(* construction over whatever the files hold, add_student_face and         *)
(* remove_student_face                                                     *)
(***************************************************************************)
BuildImpls == {"advanced", "opencv", "enhanced"}

InitBuild ==
    /\ g_impl \in BuildImpls
    /\ known_faces = <<>>
    /\ face_labels = <<>>
    /\ is_trained = FALSE
    /\ recognizer = {}
    /\ disk = NoDisk
    /\ ret = [op |-> "init", id |-> None, ok |-> TRUE]
    /\ removedIds = {}
    /\ rec = NoRec
    /\ RaceIdle /\ TrackIdle /\ LifeIdle
    /\ ReadIdle /\ AppIdle /\ StageIdle

NextBuild == DamageAdd \/ PersistRemove \/ DamagedRestart

SpecBuild == InitBuild /\ [][NextBuild]_vars

\* C38: in every gallery state reachable through construction
\* (load_face_data), add_student_face and remove_student_face, is_trained
\* = True implies that the gallery holds at least one identity with at least
\* one sample; in particular is_trained is False after the last identity was
\* removed
C38_TrainedImpliesSample ==
    is_trained => \E id \in DOMAIN known_faces : Len(known_faces[id].images) >= 1

\* the last identity was removed while the model file of the trained gallery
\* stays on disk, and the instance is not trained
C38_Witness ==
    /\ ret = [op |-> "remove", id |-> "S1", ok |-> TRUE]
    /\ DOMAIN known_faces = {}
    /\ disk.model # {}
    /\ ~is_trained

====
